---- MODULE Spec2Model ----
(***************************************************************************)
(* The MetadataExtractor component of sakthis4/AI-Tools as a state         *)
(* machine: the page-by-page extraction pipeline (handleProcess), the      *)
(* asset collection and the region-selection controller, together with    *)
(* the part of the application context (current user, usage log, toasts)  *)
(* the component reads and writes.                                         *)
(*                                                                         *)
(* The repository holds two versions of the component.  The variable      *)
(* `variant` says which one a behaviour follows:                           *)
(*   "fixed"  src/pages/MetadataExtractor.tsx: pages shown at the fixed    *)
(*            scale 1.5, assets appended without sorting;                  *)
(*   "fit"    src/unnamed/part_000: pages scaled to the viewer's width,    *)
(*            the collection re-sorted by sortAssets on every insertion.   *)
(*                                                                         *)
(* One behaviour follows one mounted instance of the component at a time; *)
(* Relaunch (Back, then Launch Tool) replaces it by a fresh instance once  *)
(* no asynchronous work of the old one is outstanding.                     *)
(***************************************************************************)
EXTENDS Integers, Sequences, FiniteSets, TLC

\* ------------------------------------------------------------------ bounds
\* Pages of a document, assets the service reports on one page, extraction
\* runs the context lets complete, selections a user has metadata generated
\* for, and resize events of the window, per mounted instance.
MaxPages == 2
MaxAssetsPerPage == 2
MaxRuns == 2
MaxManual == 1
MaxResizes == 1
MaxEdits == 2
MaxEffects == 2

\* ------------------------------------------------------- program constants
\* onDrop's size limit, 100 * 1024 * 1024 bytes.
MaxFileBytes == 100 * 1024 * 1024
\* Scales are kept in tenths: 15 is the scale 1.5 of the extraction raster.
API_SCALE == 15
INITIAL_PDF_SCALE == 10

None == <<>>
Some(x) == <<x>>

Variants == {"fixed", "fit"}

\* The active users the context starts with (constants.ts); the third user
\* of the file is inactive.
USERS ==
    { [id |-> 1, tokenCap |-> 1000000, tokensUsed |-> 12500],
      [id |-> 2, tokenCap |-> 50000, tokensUsed |-> 45000] }
USAGE_LOGS ==
    << [userId |-> 1, promptTokens |-> 2500, responseTokens |-> 1500],
       [userId |-> 2, promptTokens |-> 8000, responseTokens |-> 4200],
       [userId |-> 2, promptTokens |-> 15000, responseTokens |-> 7800] >>

\* addUsageLog draws promptTokens from 500..3499 and responseTokens from
\* 300..2299; one value of each stands for the draw.  With them user 2
\* ends a run at exactly the cap.
PromptTokens == {3000}
ResponseTokens == {2000}

\* Sizes of the files a user drops: at the limit and one byte above it.
FileSizes == {MaxFileBytes, MaxFileBytes + 1}

\* Native page sizes of a document (in points, at scale 1).
NativeSize == [width |-> 100, height |-> 100]
\* Widths the viewer can have when the window is resized.
AvailableWidths == {200}

\* ------------------------------------------------------------------ toasts
ToastNone == [type |-> "none", message |-> ""]
ToastNoFile == [type |-> "error", message |-> "Please upload a PDF file."]
ToastTokenCap == [type |-> "error", message |-> "Token cap reached - contact admin."]
ToastFileSize == [type |-> "error", message |-> "File size cannot exceed 100MB."]
ToastComplete == [type |-> "success", message |-> "Extraction complete!"]
ToastError(msg) == [type |-> "error", message |-> msg]

\* ---------------------------------------------------------- status messages
Msg(kind, page, total) == [kind |-> kind, page |-> page, total |-> total]
MsgNone == Msg("", 0, 0)
MsgLoading == Msg("Loading PDF document...", 0, 0)
MsgAnalyzing(k, n) == Msg("Analyzing page", k, n)

\* The messages a rejected promise of the pipeline carries.
LoadErrors == {"Invalid PDF structure."}
RenderErrors == {"Rendering failed."}
\* extractAssetsFromPage rethrows every failure under one message.
ServiceError == "Failed to process page with Gemini API."

\* ------------------------------------------------------------------- assets
\* What the metadata service answers for one asset of a page; only the
\* bounding box varies between the descriptors the model draws.
Box(x, y, w, h) == [x |-> x, y |-> y, width |-> w, height |-> h]
ServiceBoxes == {None, Some(Box(10, 20, 50, 30)), Some(Box(10, 60, 50, 30))}
Descriptor(bb) ==
    [assetId |-> "Figure 1", assetType |-> "Figure", preview |-> "preview",
     altText |-> <<"alt">>, keywords |-> <<"k1">>, taxonomy |-> "Figure -> Chart",
     boundingBox |-> bb]

RECURSIVE SeqsUpTo(_, _)
SeqsUpTo(S, n) ==
    IF n = 0 THEN {<<>>}
    ELSE LET shorter == SeqsUpTo(S, n - 1)
         IN shorter \cup {Append(s, e) : s \in {t \in shorter : Len(t) = n - 1}, e \in S}

\* The answers extractAssetsFromPage can resolve with.
PageResponses == SeqsUpTo({Descriptor(bb) : bb \in ServiceBoxes}, MaxAssetsPerPage)

VARIABLES
    variant,           \* which version of the component runs
    file,              \* useState<File | null>
    status,            \* 'idle' | 'loading' | 'extracting' | 'done' | 'error'
    statusMessage,
    extractedAssets,   \* the Asset Collection
    selectedAssetId,
    pdfDoc,            \* the document handle, None or Some([numPages])
    pdfScale,          \* display scale in tenths ("fit" only)
    pageDimensions,
    currentUser,       \* AppContext
    usageLogs,         \* AppContext
    toast,             \* the toast addToast raised last
    proc,              \* the running handleProcess call
    nextId,            \* supply of crypto.randomUUID(); it starts again with a
                       \* run, when no asset of an earlier run is left
    runLog,            \* what the current run did, in order
    selectionMode,     \* region selection: the "Select" toggle
    isSelecting,       \* a drag is in progress
    isGeneratingSelection,   \* "fit" only
    selectionRect,     \* None or Some([pageIndex, rect])
    selectionStart,    \* None or Some([x, y]), pixels inside the page
    gen,               \* the running handleGenerateForSelection call
    gesture,           \* history: the page of the pointer-down and the rectangle
                       \* at the pointer-up behind the current selectionRect
    manual,            \* generations for a selection that have ended so far
    resizeTimer,       \* "fit": the debounce timer of handleResize is armed
    dimUpdates,        \* "fit": the updatePdfDimensions calls in flight
    resizes,           \* resize events so far
    regenTimers,       \* handleRegenerate: the ids whose 2 s timers are armed,
                       \* in the order they will fire
    editLog,           \* history: the edits of the collection, in order
    lazy,              \* the LazyPdfPage of each page: its two flags and the
                       \* runs of its render effect that are still in flight
    rasterStarts       \* history: the page.render calls LazyPdfPage has started
                       \* for each page since the document was loaded

compVars == <<file, status, statusMessage, extractedAssets, selectedAssetId,
              pdfDoc, pdfScale, pageDimensions>>
ctxVars == <<currentUser, usageLogs>>
selVars == <<selectionMode, isSelecting, isGeneratingSelection, selectionRect,
             selectionStart>>
regionVars == <<selVars, gen, gesture, manual>>
resizeVars == <<resizeTimer, dimUpdates, resizes>>
editVars == <<regenTimers, editLog>>
lazyVars == <<lazy, rasterStarts>>
vars == <<variant, compVars, ctxVars, toast, proc, nextId, runLog, regionVars, resizeVars,
          editVars, lazyVars>>

\* ---------------------------------------------------------------- sorting
\* compareAssets with the y difference taken the wrong way round.
compareAssetsDescending(a, b) ==
    IF a.pageNumber # b.pageNumber THEN a.pageNumber - b.pageNumber
    ELSE IF a.boundingBox # None /\ b.boundingBox # None
         THEN b.boundingBox[1].y - a.boundingBox[1].y
         ELSE 0

\* The comparator of sortAssets.
compareAssets(a, b) ==
    IF a.pageNumber # b.pageNumber THEN a.pageNumber - b.pageNumber
    ELSE IF a.boundingBox # None /\ b.boundingBox # None
         THEN a.boundingBox[1].y - b.boundingBox[1].y
         ELSE 0

\* Array.prototype.sort is stable; for a comparator that is a consistent
\* ordering every engine returns the same sequence.  compareAssets is not
\* transitive on a page that holds an asset without a bounding box next to
\* two boxed assets of different y, and the order is then the engine's
\* choice: sortAssets is the set of the results of two stable algorithms,
\* binary insertion sort (what TimSort does on a short array) and merge sort.
RECURSIVE BinarySearch(_, _, _, _)
BinarySearch(s, pivot, left, right) ==
    IF left >= right THEN left
    ELSE LET mid == left + ((right - left) \div 2)
         IN IF compareAssets(pivot, s[mid]) < 0
            THEN BinarySearch(s, pivot, left, mid)
            ELSE BinarySearch(s, pivot, mid + 1, right)

\* `s` is sorted; the place of `a` in it is found by binary search.
InsertInto(s, a) ==
    LET at == BinarySearch(s, a, 1, Len(s) + 1)
    IN SubSeq(s, 1, at - 1) \o <<a>> \o SubSeq(s, at, Len(s))

RECURSIVE InsertionSort(_)
InsertionSort(s) ==
    IF s = <<>> THEN <<>>
    ELSE InsertInto(InsertionSort(SubSeq(s, 1, Len(s) - 1)), s[Len(s)])

RECURSIVE Merge(_, _)
Merge(l, r) ==
    IF l = <<>> THEN r
    ELSE IF r = <<>> THEN l
    ELSE IF compareAssets(l[1], r[1]) <= 0
         THEN <<l[1]>> \o Merge(Tail(l), r)
         ELSE <<r[1]>> \o Merge(l, Tail(r))

RECURSIVE MergeSort(_)
MergeSort(s) ==
    IF Len(s) < 2 THEN s
    ELSE LET mid == Len(s) \div 2
         IN Merge(MergeSort(SubSeq(s, 1, mid)), MergeSort(SubSeq(s, mid + 1, Len(s))))

\* sortAssets returning the list as it got it.
sortAssetsUnsorted(assets) == {assets}

sortAssets(assets) == {InsertionSort(assets), MergeSort(assets)}

\* Publishing the assets of the page just processed in place of the
\* accumulated list.
PublishPipelineLatest(all) == {SubSeq(all, Len(all), Len(all))}

\* What the pipeline publishes with setExtractedAssets after a page:
\* sortAssets(allAssets) in "fit", a copy of allAssets in "fixed".
PublishPipeline(all) == IF variant = "fit" THEN sortAssets(all) ELSE {all}

\* newAssetsWithContext tagging with the zero-based index of the page.
RECURSIVE newAssetsWithPageIndex(_, _, _)
newAssetsWithPageIndex(assetsOnPage, pageNum, id) ==
    IF assetsOnPage = <<>> THEN <<>>
    ELSE LET d == assetsOnPage[1]
         IN << [id |-> id, assetId |-> d.assetId, assetType |-> d.assetType,
                pageNumber |-> pageNum - 1, preview |-> d.preview, altText |-> d.altText,
                keywords |-> d.keywords, taxonomy |-> d.taxonomy,
                boundingBox |-> d.boundingBox] >>
            \o newAssetsWithPageIndex(Tail(assetsOnPage), pageNum, id + 1)

\* assetsOnPage.map(asset => ({...asset, id: crypto.randomUUID(), pageNumber: pageNum}))
RECURSIVE newAssetsWithContext(_, _, _)
newAssetsWithContext(assetsOnPage, pageNum, id) ==
    IF assetsOnPage = <<>> THEN <<>>
    ELSE LET d == assetsOnPage[1]
         IN << [id |-> id, assetId |-> d.assetId, assetType |-> d.assetType,
                pageNumber |-> pageNum, preview |-> d.preview, altText |-> d.altText,
                keywords |-> d.keywords, taxonomy |-> d.taxonomy,
                boundingBox |-> d.boundingBox] >>
            \o newAssetsWithContext(Tail(assetsOnPage), pageNum, id + 1)

\* --------------------------------------------------------- LazyPdfPage
LazyPages == 1..MaxPages

\* A LazyPdfPage as it is mounted: useState(false) twice, no effect run yet.
\* `effects` counts the runs of the render effect that got past its guard;
\* a run is [n, pc, cancelled, detached]: isCancelled is the closure's flag,
\* and the canvas the run draws on is detached once its component is gone.
Unobserved == [isIntersecting |-> FALSE, isRendered |-> FALSE, runs |-> {}, effects |-> 0]

NoRasterStarts == [p \in LazyPages |-> 0]

\* {pdfDoc && pageDimensions.map(...)} inside renderResultsArea: the page
\* component of page p exists.
PageMounted(st, doc, dims, p) == st = "done" /\ doc # None /\ p <= Len(dims)

\* The cleanup of the render effect: isCancelled = true.
CancelRuns(runs) == {[r EXCEPT !.cancelled = TRUE] : r \in runs}

\* The component is unmounted: the cleanups run, its state is gone and its
\* canvas leaves the document; the component mounted in its place starts
\* from useState(false) with a canvas of its own.
Teardown(pg) ==
    [pg EXCEPT !.isIntersecting = FALSE, !.isRendered = FALSE,
               !.runs = {[r EXCEPT !.detached = TRUE] : r \in CancelRuns(@)}]

\* The render effect: if (!isIntersecting || isRendered || scale <= 0)
\* return ("fit"; "fixed" has no scale); otherwise pdfDoc.getPage(pageNum).
StartEffect(pg, scale) ==
    IF ~pg.isIntersecting \/ pg.isRendered \/ scale <= 0
    THEN pg
    ELSE [pg EXCEPT !.runs = @ \cup {[n |-> pg.effects + 1, pc |-> "getPage",
                                      cancelled |-> FALSE, detached |-> FALSE]},
                    !.effects = @ + 1]

\* A dependency of the render effect changed: cleanup, then the effect again.
RerunEffect(pg, scale) == StartEffect([pg EXCEPT !.runs = CancelRuns(@)], scale)

\* The React state of the parent and the context it consumes.
ParentState == <<compVars, selVars, ctxVars, toast>>

\* What a render of the parent does to the page component of page p.  When
\* the page leaves the tree it is torn down.  In "fixed" LazyPdfPage is
\* defined inside the parent's body, so that every render of the parent
\* makes a new component type and React replaces the mounted pages by new
\* ones.  In "fit" the component is defined once and gets the scale as a
\* prop, a dependency of its render effect.
PageAfterRender(pg, p) ==
    LET before == PageMounted(status, pdfDoc, pageDimensions, p)
        after == PageMounted(status', pdfDoc', pageDimensions', p)
    IN IF before /\ (~after \/ (variant = "fixed" /\ ParentState' # ParentState))
       THEN Teardown(pg)
       ELSE IF before /\ variant = "fit" /\ pdfScale' # pdfScale
       THEN RerunEffect(pg, pdfScale')
       ELSE pg

\* The pages after a step of the parent; setPdfDoc(pdf) begins a document
\* load.
PagesAfterRender ==
    /\ lazy' = [p \in LazyPages |-> PageAfterRender(lazy[p], p)]
    /\ rasterStarts' = IF proc.pc = "load" /\ proc'.pc = "dims" THEN NoRasterStarts
                       ELSE rasterStarts

Event(ev, page) == [ev |-> ev, page |-> page]

ProcIdle ==
    [pc |-> "none", pageNum |-> 0, numPages |-> 0, allAssets |-> <<>>,
     pending |-> {}, userId |-> 0]

GestureNone == [downPage |-> None, upRect |-> None]

GenIdle ==
    [pc |-> "none", pageIndex |-> 0, selectionBox |-> Box(0, 0, 0, 0),
     originalStatus |-> "done", confirmed |-> GestureNone]

\* The state when the tool is launched.  The context starts with the admin
\* as current user; setCurrentUser, which the context hands to the header,
\* can have made it any active user before the launch.
Init ==
    /\ variant \in Variants
    /\ file = None
    /\ status = "idle"
    /\ statusMessage = MsgNone
    /\ extractedAssets = <<>>
    /\ selectedAssetId = None
    /\ pdfDoc = None
    /\ pdfScale = INITIAL_PDF_SCALE
    /\ pageDimensions = <<>>
    /\ currentUser \in USERS
    /\ usageLogs = USAGE_LOGS
    /\ toast = ToastNone
    /\ proc = ProcIdle
    /\ nextId = 1
    /\ runLog = <<>>
    /\ selectionMode = FALSE
    /\ isSelecting = FALSE
    /\ isGeneratingSelection = FALSE
    /\ selectionRect = None
    /\ selectionStart = None
    /\ gen = GenIdle
    /\ gesture = GestureNone
    /\ manual = 0
    /\ resizeTimer = FALSE
    /\ dimUpdates = {}
    /\ resizes = 0
    /\ regenTimers = <<>>
    /\ editLog = <<>>
    /\ lazy = [p \in LazyPages |-> Unobserved]
    /\ rasterStarts = NoRasterStarts

\* A viewer that is also rendered while the pages are analysed.
ViewerMountedWhileExtracting == status \in {"extracting", "done"}

\* The viewer <div ref={viewerRef}> is rendered by renderResultsArea only.
ViewerMounted == status = "done"

\* ------------------------------------------------------------------ onDrop
\* The limit written as 1000 MB.
FileTooLargeAboveTenfold(size) == size > 10 * MaxFileBytes

FileTooLarge(size) == size > MaxFileBytes

onDrop(size) ==
    /\ status = "idle"
    /\ IF FileTooLarge(size)
       THEN /\ toast' = ToastFileSize
            /\ UNCHANGED file
       ELSE /\ file' = Some([size |-> size])
            /\ UNCHANGED toast
    /\ UNCHANGED <<variant, editVars, regionVars, resizeVars, status, statusMessage, extractedAssets, selectedAssetId,
                   pdfDoc, pdfScale, pageDimensions, ctxVars, proc, nextId, runLog>>
    /\ PagesAfterRender

\* ----------------------------------------------------------- handleProcess
\* The gate with > for >=.
BudgetExceeded(user) == user.tokensUsed > user.tokenCap

BudgetExhausted(user) == user.tokensUsed >= user.tokenCap

\* handleProcess without setExtractedAssets([]): the assets of the run
\* before stay in the collection.
handleProcessKeepingAssets ==
    /\ status = "idle"
    /\ file # None
    /\ proc.pc = "none"
    /\ IF file = None
       THEN /\ toast' = ToastNoFile
            /\ UNCHANGED <<status, statusMessage, extractedAssets, proc, runLog, nextId>>
       ELSE IF BudgetExhausted(currentUser)
       THEN /\ toast' = ToastTokenCap
            /\ UNCHANGED <<status, statusMessage, extractedAssets, proc, runLog, nextId>>
       ELSE /\ Len(usageLogs) < Len(USAGE_LOGS) + MaxRuns
            /\ status' = "loading"
            /\ statusMessage' = MsgLoading
            /\ UNCHANGED extractedAssets
            /\ proc' = [ProcIdle EXCEPT !.pc = "load", !.userId = currentUser.id]
            /\ runLog' = <<>>
            /\ nextId' = 1
            /\ UNCHANGED toast
    /\ UNCHANGED <<variant, editVars, regionVars, resizeVars, file, selectedAssetId, pdfDoc, pdfScale, pageDimensions,
                   ctxVars>>
    /\ PagesAfterRender

\* The click on "Extract Metadata" (rendered while idle, disabled without a
\* file): the gates, then the synchronous part up to the first await.
handleProcess ==
    /\ status = "idle"
    /\ file # None
    /\ proc.pc = "none"
    /\ IF file = None
       THEN /\ toast' = ToastNoFile
            /\ UNCHANGED <<status, statusMessage, extractedAssets, proc, runLog, nextId>>
       ELSE IF BudgetExhausted(currentUser)
       THEN /\ toast' = ToastTokenCap
            /\ UNCHANGED <<status, statusMessage, extractedAssets, proc, runLog, nextId>>
       ELSE /\ Len(usageLogs) < Len(USAGE_LOGS) + MaxRuns
            /\ status' = "loading"
            /\ statusMessage' = MsgLoading
            /\ extractedAssets' = <<>>
            /\ proc' = [ProcIdle EXCEPT !.pc = "load", !.userId = currentUser.id]
            /\ runLog' = <<>>
            /\ nextId' = 1
            /\ UNCHANGED toast
    /\ UNCHANGED <<variant, editVars, regionVars, resizeVars, file, selectedAssetId, pdfDoc, pdfScale, pageDimensions,
                   ctxVars>>
    /\ PagesAfterRender

\* addUsageLog of the application context.
addUsageLog(userId, promptTokens, responseTokens) ==
    /\ usageLogs' = <<[userId |-> userId, promptTokens |-> promptTokens,
                       responseTokens |-> responseTokens]>> \o usageLogs
    /\ currentUser' =
          IF currentUser.id = userId
          THEN [currentUser EXCEPT !.tokensUsed = @ + promptTokens + responseTokens]
          ELSE currentUser

\* NextPageOrFinish with the usage hook inside the loop.
NextPageOrFinishLoggingEachPage(all, log) ==
    IF proc.pageNum < proc.numPages
    THEN /\ proc' = [proc EXCEPT !.pc = "getPage", !.pageNum = @ + 1,
                                 !.allAssets = all, !.pending = {}]
         /\ statusMessage' = MsgAnalyzing(proc.pageNum + 1, proc.numPages)
         /\ runLog' = Append(log, Event("progress", proc.pageNum + 1))
         /\ \E p \in PromptTokens, r \in ResponseTokens : addUsageLog(proc.userId, p, r)
         /\ UNCHANGED <<status, toast>>
    ELSE /\ proc' = [proc EXCEPT !.pc = "none", !.allAssets = all, !.pending = {}]
         /\ status' = "done"
         /\ statusMessage' = MsgNone
         /\ \E p \in PromptTokens, r \in ResponseTokens : addUsageLog(proc.userId, p, r)
         /\ toast' = ToastComplete
         /\ runLog' = Append(log, Event("usage", proc.pageNum))

\* The end of one iteration of the page loop: the next page, or the code
\* after the loop (status 'done', the usage log, the success toast).
NextPageOrFinish(all, log) ==
    IF proc.pageNum < proc.numPages
    THEN /\ proc' = [proc EXCEPT !.pc = "getPage", !.pageNum = @ + 1,
                                 !.allAssets = all, !.pending = {}]
         /\ statusMessage' = MsgAnalyzing(proc.pageNum + 1, proc.numPages)
         /\ runLog' = Append(log, Event("progress", proc.pageNum + 1))
         /\ UNCHANGED <<status, ctxVars, toast>>
    ELSE /\ proc' = [proc EXCEPT !.pc = "none", !.allAssets = all, !.pending = {}]
         /\ status' = "done"
         /\ statusMessage' = MsgNone
         /\ \E p \in PromptTokens, r \in ResponseTokens : addUsageLog(proc.userId, p, r)
         /\ toast' = ToastComplete
         /\ runLog' = Append(log, Event("usage", proc.pageNum))

\* A catch block that notes the failure and goes on with the next page.
FailRunContinuing(errorMessage) ==
    /\ toast' = ToastError(errorMessage)
    /\ statusMessage' = Msg(errorMessage, 0, 0)
    /\ proc' = [proc EXCEPT !.pc = "getPage", !.pageNum = @ + 1, !.pending = {}]
    /\ runLog' = Append(runLog, Event("abort", proc.pageNum))
    /\ UNCHANGED <<variant, editVars, regionVars, resizeVars, file, status, extractedAssets,
                   selectedAssetId, pdfDoc, pdfScale, pageDimensions, ctxVars, nextId>>
    /\ PagesAfterRender

\* A catch block that also discards the assets found so far.
FailRunDiscarding(errorMessage) ==
    /\ status' = "error"
    /\ statusMessage' = Msg(errorMessage, 0, 0)
    /\ toast' = ToastError(errorMessage)
    /\ extractedAssets' = <<>>
    /\ proc' = [proc EXCEPT !.pc = "none", !.pending = {}]
    /\ runLog' = Append(runLog, Event("abort", proc.pageNum))
    /\ UNCHANGED <<variant, editVars, regionVars, resizeVars, file, selectedAssetId, pdfDoc, pdfScale,
                   pageDimensions, ctxVars, nextId>>
    /\ PagesAfterRender

\* A catch block that reports the failure and leaves status as it was.
FailRunKeepingStatus(errorMessage) ==
    /\ statusMessage' = Msg(errorMessage, 0, 0)
    /\ toast' = ToastError(errorMessage)
    /\ proc' = [proc EXCEPT !.pc = "none", !.pending = {}]
    /\ runLog' = Append(runLog, Event("abort", proc.pageNum))
    /\ UNCHANGED <<variant, editVars, regionVars, resizeVars, file, status, extractedAssets,
                   selectedAssetId, pdfDoc, pdfScale, pageDimensions, ctxVars, nextId>>
    /\ PagesAfterRender

\* The catch block of handleProcess.
FailRun(errorMessage) ==
    /\ status' = "error"
    /\ statusMessage' = Msg(errorMessage, 0, 0)
    /\ toast' = ToastError(errorMessage)
    /\ proc' = [proc EXCEPT !.pc = "none", !.pending = {}]
    /\ runLog' = Append(runLog, Event("abort", proc.pageNum))
    /\ UNCHANGED <<variant, editVars, regionVars, resizeVars, file, extractedAssets, selectedAssetId, pdfDoc, pdfScale,
                   pageDimensions, ctxVars, nextId>>
    /\ PagesAfterRender

\* file.arrayBuffer() and pdfjsLib.getDocument(...).promise resolve.  With
\* pdfDoc the resize effect of "fit" runs again; its cleanup clears the timer.
LoadResolve(numPages) ==
    /\ proc.pc = "load"
    /\ pdfDoc' = Some([numPages |-> numPages])
    /\ proc' = [proc EXCEPT !.pc = "dims", !.numPages = numPages]
    /\ resizeTimer' = FALSE
    /\ UNCHANGED <<variant, editVars, regionVars, dimUpdates, resizes, file, status, statusMessage, extractedAssets, selectedAssetId,
                   pdfScale, pageDimensions, ctxVars, toast, nextId, runLog>>
    /\ PagesAfterRender

LoadReject(msg) ==
    /\ proc.pc = "load"
    /\ FailRun(msg)

\* The size of every page at `scale` (tenths).
Dimensions(numPages, scale) ==
    [i \in 1..numPages |->
        [width |-> (NativeSize.width * scale) \div 10,
         height |-> (NativeSize.height * scale) \div 10]]

\* The page dimensions are in: "fixed" computes them at scale 1.5 in
\* handleProcess; "fit" calls updatePdfDimensions, which returns at once
\* while the viewer is not mounted.  Then the loop starts with page 1.
DimsResolve ==
    /\ proc.pc = "dims"
    /\ IF variant = "fixed"
       THEN /\ pageDimensions' = Dimensions(proc.numPages, API_SCALE)
            /\ UNCHANGED pdfScale
       ELSE IF ~ViewerMounted
       THEN UNCHANGED <<pdfScale, pageDimensions>>
       ELSE \E w \in AvailableWidths :
               /\ pdfScale' = (w * 10) \div NativeSize.width
               /\ pageDimensions' = Dimensions(proc.numPages, (w * 10) \div NativeSize.width)
    /\ status' = "extracting"
    /\ statusMessage' = MsgAnalyzing(1, proc.numPages)
    /\ proc' = [proc EXCEPT !.pc = "getPage", !.pageNum = 1]
    /\ runLog' = Append(runLog, Event("progress", 1))
    /\ UNCHANGED <<variant, editVars, regionVars, resizeVars, file, extractedAssets, selectedAssetId, pdfDoc, ctxVars,
                   toast, nextId>>
    /\ PagesAfterRender

\* pdf.getPage(i) rejects while the dimensions are computed ("fixed").
DimsReject(msg) ==
    /\ proc.pc = "dims"
    /\ variant = "fixed"
    /\ FailRun(msg)

\* pdf.getPage(pageNum) resolves; without a 2d context the page is skipped
\* (continue), otherwise page.render starts.
GetPageResolve(hasContext) ==
    /\ proc.pc = "getPage"
    /\ IF hasContext
       THEN /\ proc' = [proc EXCEPT !.pc = "render"]
            /\ runLog' = Append(runLog, Event("raster", proc.pageNum))
            /\ UNCHANGED <<status, statusMessage, ctxVars, toast>>
       ELSE NextPageOrFinish(proc.allAssets, Append(runLog, Event("skip", proc.pageNum)))
    /\ UNCHANGED <<variant, editVars, regionVars, resizeVars, file, extractedAssets, selectedAssetId, pdfDoc, pdfScale,
                   pageDimensions, nextId>>
    /\ PagesAfterRender

GetPageReject(msg) ==
    /\ proc.pc = "getPage"
    /\ FailRun(msg)

\* The call issued without await: the loop goes on to the next page.
AwaitServiceNotAwaited(p) ==
    [p EXCEPT !.pc = "getPage", !.pageNum = @ + 1, !.pending = @ \cup {p.pageNum}]

\* await extractAssetsFromPage(pageImageBase64): the call is issued and the
\* loop waits for it.
AwaitService(p) == [p EXCEPT !.pc = "service", !.pending = @ \cup {p.pageNum}]

\* page.render(...).promise resolves: the page image is encoded and sent.
RenderResolve ==
    /\ proc.pc = "render"
    /\ proc' = AwaitService(proc)
    /\ runLog' = Append(runLog, Event("call", proc.pageNum))
    /\ UNCHANGED <<variant, editVars, regionVars, resizeVars, compVars, ctxVars, toast, nextId>>
    /\ PagesAfterRender

RenderReject(msg) ==
    /\ proc.pc = "render"
    /\ FailRun(msg)

\* extractAssetsFromPage resolves with assetsOnPage.
ServiceResolve(assetsOnPage) ==
    /\ proc.pc = "service"
    /\ proc.pageNum \in proc.pending
    /\ IF Len(assetsOnPage) > 0
       THEN \E published \in
                PublishPipeline(proc.allAssets
                                \o newAssetsWithContext(assetsOnPage, proc.pageNum, nextId)) :
               /\ extractedAssets' = published
               /\ nextId' = nextId + Len(assetsOnPage)
               /\ NextPageOrFinish(
                     IF variant = "fit" THEN published
                     ELSE proc.allAssets
                          \o newAssetsWithContext(assetsOnPage, proc.pageNum, nextId),
                     runLog \o <<Event("return", proc.pageNum),
                                 Event("append", proc.pageNum)>>)
       ELSE /\ UNCHANGED <<extractedAssets, nextId>>
            /\ NextPageOrFinish(proc.allAssets,
                                Append(runLog, Event("return", proc.pageNum)))
    /\ UNCHANGED <<variant, editVars, regionVars, resizeVars, file, selectedAssetId, pdfDoc, pdfScale, pageDimensions>>
    /\ PagesAfterRender

ServiceReject ==
    /\ proc.pc = "service"
    /\ FailRun(ServiceError)

\* The "Try Again" button of the error screen.
TryAgain ==
    /\ status = "error"
    /\ status' = "idle"
    /\ UNCHANGED <<variant, editVars, regionVars, resizeVars, file, statusMessage, extractedAssets, selectedAssetId, pdfDoc,
                   pdfScale, pageDimensions, ctxVars, toast, proc, nextId, runLog>>
    /\ PagesAfterRender

\* --------------------------------------------------------- region selection
\* Where the pointer is, in tenths of the page's width and height from the
\* page's top-left corner; a drag may leave the page on any side.
DownPoints == {[fx |-> 5, fy |-> 5]}
MovePoints == {[fx |-> 1, fy |-> 1], [fx |-> 11, fy |-> -1]}

Min(a, b) == IF a < b THEN a ELSE b
Abs(a) == IF a < 0 THEN 0 - a ELSE a

\* e.clientX - rect.left for a pointer at `tenths` of the page's extent.
Offset(extent, tenths) == (extent * tenths) \div 10
\* (v / extent) * 100
Percent(v, extent) == (v * 100) \div extent

\* The page containers the viewer renders: pdfDoc && pageDimensions.map(...)
RenderedPages ==
    IF ViewerMounted /\ pdfDoc # None THEN 0..(Len(pageDimensions) - 1) ELSE {}

\* pageElement.getBoundingClientRect() of the container of page `pageIndex`.
PageRect(pageIndex) == pageDimensions[pageIndex + 1]

\* The "Select" button of the results header.
ToggleSelectionMode ==
    /\ ViewerMounted
    /\ selectionMode' = ~selectionMode
    /\ UNCHANGED <<variant, editVars, compVars, ctxVars, toast, proc, nextId, runLog, isSelecting,
                   isGeneratingSelection, selectionRect, selectionStart, gen, gesture,
                   manual, resizeVars>>
    /\ PagesAfterRender

\* The rectangle handleMouseDown starts a drag with.
StartRect(x, y, rect) ==
    Box(Percent(x, rect.width), Percent(y, rect.height), 0, 0)

\* onMouseDown without the test of selectionMode.
handleMouseDownAnyMode(target, point) ==
    /\ ViewerMounted
    /\ manual < MaxManual
    /\ IF target = None
       THEN UNCHANGED <<isSelecting, selectionStart, selectionRect, gesture>>
       ELSE LET pageIndex == target[1]
                rect == PageRect(pageIndex)
                x == Offset(rect.width, point.fx)
                y == Offset(rect.height, point.fy)
            IN /\ isSelecting' = TRUE
               /\ selectionStart' = Some([x |-> x, y |-> y])
               /\ selectionRect' = Some([pageIndex |-> pageIndex, rect |-> StartRect(x, y, rect)])
               /\ gesture' = [downPage |-> Some(pageIndex), upRect |-> None]
    /\ UNCHANGED <<variant, editVars, compVars, ctxVars, toast, proc, nextId, runLog, selectionMode,
                   isGeneratingSelection, gen, manual, resizeVars>>
    /\ PagesAfterRender

\* onMouseDown of the viewer; `target` is the page container under the
\* pointer, or None outside every page.
handleMouseDown(target, point) ==
    /\ ViewerMounted
    /\ manual < MaxManual
    /\ IF ~selectionMode \/ target = None
       THEN UNCHANGED <<isSelecting, selectionStart, selectionRect, gesture>>
       ELSE LET pageIndex == target[1]
                rect == PageRect(pageIndex)
                x == Offset(rect.width, point.fx)
                y == Offset(rect.height, point.fy)
            IN /\ isSelecting' = TRUE
               /\ selectionStart' = Some([x |-> x, y |-> y])
               /\ selectionRect' = Some([pageIndex |-> pageIndex, rect |-> StartRect(x, y, rect)])
               /\ gesture' = [downPage |-> Some(pageIndex), upRect |-> None]
    /\ UNCHANGED <<variant, editVars, compVars, ctxVars, toast, proc, nextId, runLog, selectionMode,
                   isGeneratingSelection, gen, manual, resizeVars>>
    /\ PagesAfterRender

\* newRect with the pointer clamped to the page before the box is built.
normalizeRectClamped(start, currentX, currentY, rect) ==
    LET cx == IF currentX < 0 THEN 0 ELSE IF currentX > rect.width THEN rect.width ELSE currentX
        cy == IF currentY < 0 THEN 0 ELSE IF currentY > rect.height THEN rect.height ELSE currentY
    IN Box(Percent(Min(start.x, cx), rect.width),
           Percent(Min(start.y, cy), rect.height),
           Percent(Abs(cx - start.x), rect.width),
           Percent(Abs(cy - start.y), rect.height))

\* newRect without Math.min and Math.abs: the box from the start to the
\* pointer, with a negative extent for a drag to the left or upwards.
normalizeRectSigned(start, currentX, currentY, rect) ==
    Box(Percent(start.x, rect.width),
        Percent(start.y, rect.height),
        Percent(currentX - start.x, rect.width),
        Percent(currentY - start.y, rect.height))

\* newRect of handleMouseMove: the normalised rectangle between the drag's
\* start and the pointer, in percent of the page, not clamped to the page.
normalizeRect(start, currentX, currentY, rect) ==
    Box(Percent(Min(start.x, currentX), rect.width),
        Percent(Min(start.y, currentY), rect.height),
        Percent(Abs(currentX - start.x), rect.width),
        Percent(Abs(currentY - start.y), rect.height))

\* onMouseMove of the viewer; the pointer is measured against the page the
\* drag started on.
handleMouseMove(point) ==
    /\ ViewerMounted
    /\ IF ~isSelecting \/ selectionStart = None \/ selectionRect = None
       THEN UNCHANGED selectionRect
       ELSE IF selectionRect[1].pageIndex \notin RenderedPages
       THEN UNCHANGED selectionRect
       ELSE LET rect == PageRect(selectionRect[1].pageIndex)
                currentX == Offset(rect.width, point.fx)
                currentY == Offset(rect.height, point.fy)
            IN selectionRect' =
                  Some([selectionRect[1] EXCEPT
                           !.rect = normalizeRect(selectionStart[1], currentX, currentY, rect)])
    /\ UNCHANGED <<variant, editVars, compVars, ctxVars, toast, proc, nextId, runLog, selectionMode,
                   isSelecting, isGeneratingSelection, selectionStart, gen, gesture, manual,
                   resizeVars>>
    /\ PagesAfterRender

\* onMouseUp without its two setters: the drag goes on after the release.
handleMouseUpStillDragging ==
    /\ ViewerMounted
    /\ gesture' = [gesture EXCEPT !.upRect = selectionRect]
    /\ UNCHANGED <<variant, editVars, compVars, ctxVars, toast, proc, nextId, runLog, selectionMode,
                   isSelecting, selectionStart, isGeneratingSelection, selectionRect, gen,
                   manual, resizeVars>>
    /\ PagesAfterRender

\* onMouseUp of the viewer.
handleMouseUp ==
    /\ ViewerMounted
    /\ isSelecting' = FALSE
    /\ selectionStart' = None
    /\ gesture' = [gesture EXCEPT !.upRect = selectionRect]
    /\ UNCHANGED <<variant, editVars, compVars, ctxVars, toast, proc, nextId, runLog, selectionMode,
                   isGeneratingSelection, selectionRect, gen, manual, resizeVars>>
    /\ PagesAfterRender

\* The confirm/cancel affordance: {selectionRect && !isSelecting && ...}; in
\* "fit" a spinner replaces its two buttons while a generation runs.
AffordanceShown ==
    /\ ViewerMounted
    /\ selectionRect # None
    /\ ~isSelecting
    /\ ~isGeneratingSelection

\* The X button of the affordance: setSelectionRect(null).
CancelSelection ==
    /\ AffordanceShown
    /\ selectionRect' = None
    /\ gesture' = GestureNone
    /\ UNCHANGED <<variant, editVars, compVars, ctxVars, toast, proc, nextId, runLog, selectionMode,
                   isSelecting, isGeneratingSelection, selectionStart, gen, manual,
                   resizeVars>>
    /\ PagesAfterRender

\* ------------------------------------------- handleGenerateForSelection
MsgGenerating == Msg("Generating metadata for selection...", 0, 0)
ToastAdded == [type |-> "success", message |-> "New asset added!"]
ToastNotGenerated ==
    [type |-> "error", message |-> "Could not generate metadata for selection."]

\* What generateMetadataForSelection resolves with: a descriptor without
\* page number and bounding box.
SelectionMetadata ==
    { [assetId |-> "Figure X", assetType |-> "Figure", preview |-> "preview",
       altText |-> <<"alt">>, keywords |-> <<"k1">>, taxonomy |-> "Figure -> Chart"] }

\* The click without the guard on a running generation and with the two
\* buttons shown while one runs.
handleGenerateForSelectionUnguarded ==
    /\ ViewerMounted
    /\ selectionRect # None
    /\ ~isSelecting
    /\ manual < MaxManual
    /\ pdfDoc # None
    /\ gen' = [pc |-> "getPage",
               pageIndex |-> selectionRect[1].pageIndex,
               selectionBox |-> selectionRect[1].rect,
               originalStatus |-> status,
               confirmed |-> gesture]
    /\ IF variant = "fixed"
       THEN /\ status' = "extracting"
            /\ statusMessage' = MsgGenerating
            /\ UNCHANGED isGeneratingSelection
       ELSE /\ isGeneratingSelection' = TRUE
            /\ UNCHANGED <<status, statusMessage>>
    /\ UNCHANGED <<variant, editVars, file, extractedAssets, selectedAssetId, pdfDoc, pdfScale,
                   pageDimensions, ctxVars, toast, proc, nextId, runLog, selectionMode,
                   isSelecting, selectionRect, selectionStart, gesture, manual, resizeVars>>
    /\ PagesAfterRender

\* The click on "Generate Metadata": the guard and the synchronous part up
\* to the first await.  "fixed" puts the component into 'extracting' and
\* remembers the status to restore; "fit" raises isGeneratingSelection.
handleGenerateForSelection ==
    /\ AffordanceShown
    /\ manual < MaxManual
    /\ IF selectionRect = None \/ pdfDoc = None \/ isGeneratingSelection
       THEN UNCHANGED <<status, statusMessage, isGeneratingSelection, gen>>
       ELSE /\ gen' = [pc |-> "getPage",
                       pageIndex |-> selectionRect[1].pageIndex,
                       selectionBox |-> selectionRect[1].rect,
                       originalStatus |-> status,
                       confirmed |-> gesture]
            /\ IF variant = "fixed"
               THEN /\ status' = "extracting"
                    /\ statusMessage' = MsgGenerating
                    /\ UNCHANGED isGeneratingSelection
               ELSE /\ isGeneratingSelection' = TRUE
                    /\ UNCHANGED <<status, statusMessage>>
    /\ UNCHANGED <<variant, editVars, file, extractedAssets, selectedAssetId, pdfDoc, pdfScale,
                   pageDimensions, ctxVars, toast, proc, nextId, runLog, selectionMode,
                   isSelecting, selectionRect, selectionStart, gesture, manual, resizeVars>>
    /\ PagesAfterRender

\* A finally block that leaves the selection mode as it is.
GenFinallyKeepingMode ==
    /\ gen' = GenIdle
    /\ manual' = manual + 1
    /\ selectionRect' = None
    /\ UNCHANGED selectionMode
    /\ gesture' = GestureNone
    /\ IF variant = "fixed"
       THEN /\ status' = gen.originalStatus
            /\ statusMessage' = MsgNone
            /\ UNCHANGED isGeneratingSelection
       ELSE /\ isGeneratingSelection' = FALSE
            /\ UNCHANGED <<status, statusMessage>>

\* A finally block that leaves status as handleGenerateForSelection set it.
GenFinallyNotRestoring ==
    /\ gen' = GenIdle
    /\ manual' = manual + 1
    /\ selectionRect' = None
    /\ selectionMode' = FALSE
    /\ gesture' = GestureNone
    /\ UNCHANGED <<status, statusMessage, isGeneratingSelection>>

\* The finally block.
GenFinally ==
    /\ gen' = GenIdle
    /\ manual' = manual + 1
    /\ selectionRect' = None
    /\ selectionMode' = FALSE
    /\ gesture' = GestureNone
    /\ IF variant = "fixed"
       THEN /\ status' = gen.originalStatus
            /\ statusMessage' = MsgNone
            /\ UNCHANGED isGeneratingSelection
       ELSE /\ isGeneratingSelection' = FALSE
            /\ UNCHANGED <<status, statusMessage>>

\* A catch block that treats the failure like a failed run: status 'error'.
GenFailAsRunFailure ==
    /\ toast' = ToastNotGenerated
    /\ gen' = GenIdle
    /\ manual' = manual + 1
    /\ selectionRect' = None
    /\ selectionMode' = FALSE
    /\ gesture' = GestureNone
    /\ status' = "error"
    /\ statusMessage' = MsgNone
    /\ isGeneratingSelection' = FALSE
    /\ UNCHANGED <<variant, editVars, file, extractedAssets, selectedAssetId, pdfDoc, pdfScale,
                   pageDimensions, ctxVars, proc, nextId, runLog, isSelecting,
                   selectionStart, resizeVars>>
    /\ PagesAfterRender

\* The catch block, then finally.
GenFail ==
    /\ toast' = ToastNotGenerated
    /\ GenFinally
    /\ UNCHANGED <<variant, editVars, file, extractedAssets, selectedAssetId, pdfDoc, pdfScale,
                   pageDimensions, ctxVars, proc, nextId, runLog, isSelecting,
                   selectionStart, resizeVars>>
    /\ PagesAfterRender

GenStep(pc) ==
    /\ gen' = [gen EXCEPT !.pc = pc]
    /\ UNCHANGED <<variant, editVars, compVars, ctxVars, toast, proc, nextId, runLog, selVars,
                   gesture, manual, resizeVars>>
    /\ PagesAfterRender

\* pdfDoc.getPage(pageIndex + 1) resolves; without a 2d context the handler
\* throws, otherwise page.render starts.
GenGetPageResolve(hasContext) ==
    /\ gen.pc = "getPage"
    /\ gen.pageIndex + 1 <= pdfDoc[1].numPages
    /\ IF hasContext THEN GenStep("render") ELSE GenFail

GenGetPageReject ==
    /\ gen.pc = "getPage"
    /\ GenFail

\* page.render(...).promise resolves: the region is cropped (which needs a
\* second 2d context) and sent to generateMetadataForSelection.
GenRenderResolve(hasContext) ==
    /\ gen.pc = "render"
    /\ IF hasContext THEN GenStep("service") ELSE GenFail

GenRenderReject ==
    /\ gen.pc = "render"
    /\ GenFail

\* newAsset with a constant in place of crypto.randomUUID().
newAssetReusingId(newMetadata, id, pageIndex, selectionBox) ==
    [id |-> 1, assetId |-> newMetadata.assetId, assetType |-> newMetadata.assetType,
     pageNumber |-> pageIndex + 1, preview |-> newMetadata.preview,
     altText |-> newMetadata.altText, keywords |-> newMetadata.keywords,
     taxonomy |-> newMetadata.taxonomy, boundingBox |-> Some(selectionBox)]

\* newAsset with the page index for the page number.
newAssetZeroBased(newMetadata, id, pageIndex, selectionBox) ==
    [id |-> id, assetId |-> newMetadata.assetId, assetType |-> newMetadata.assetType,
     pageNumber |-> pageIndex, preview |-> newMetadata.preview,
     altText |-> newMetadata.altText, keywords |-> newMetadata.keywords,
     taxonomy |-> newMetadata.taxonomy, boundingBox |-> Some(selectionBox)]

\* newAsset = {...newMetadata, id, pageNumber: pageIndex + 1, boundingBox: selectionBox}
newAsset(newMetadata, id, pageIndex, selectionBox) ==
    [id |-> id, assetId |-> newMetadata.assetId, assetType |-> newMetadata.assetType,
     pageNumber |-> pageIndex + 1, preview |-> newMetadata.preview,
     altText |-> newMetadata.altText, keywords |-> newMetadata.keywords,
     taxonomy |-> newMetadata.taxonomy, boundingBox |-> Some(selectionBox)]

\* The append-only updater in both versions.
InsertSelectionAppending(prev, asset) == {Append(prev, asset)}

\* The updater of setExtractedAssets: prev => sortAssets([...prev, newAsset])
\* in "fit", prev => [...prev, newAsset] in "fixed".
InsertSelection(prev, asset) ==
    IF variant = "fit" THEN sortAssets(Append(prev, asset)) ELSE {Append(prev, asset)}

\* A success path that meters the request like a run of the pipeline.
GenServiceResolveMetered(newMetadata) ==
    /\ gen.pc = "service"
    /\ extractedAssets' \in
          InsertSelection(extractedAssets,
                          newAsset(newMetadata, nextId, gen.pageIndex, gen.selectionBox))
    /\ nextId' = nextId + 1
    /\ toast' = ToastAdded
    /\ GenFinally
    /\ \E p \in PromptTokens, r \in ResponseTokens : addUsageLog(currentUser.id, p, r)
    /\ UNCHANGED <<variant, editVars, file, selectedAssetId, pdfDoc, pdfScale, pageDimensions,
                   proc, runLog, isSelecting, selectionStart, resizeVars>>
    /\ PagesAfterRender

\* generateMetadataForSelection resolves: the asset is inserted, then finally.
GenServiceResolve(newMetadata) ==
    /\ gen.pc = "service"
    /\ extractedAssets' \in
          InsertSelection(extractedAssets,
                          newAsset(newMetadata, nextId, gen.pageIndex, gen.selectionBox))
    /\ nextId' = nextId + 1
    /\ toast' = ToastAdded
    /\ GenFinally
    /\ UNCHANGED <<variant, editVars, file, selectedAssetId, pdfDoc, pdfScale, pageDimensions,
                   ctxVars, proc, runLog, isSelecting, selectionStart, resizeVars>>
    /\ PagesAfterRender

GenServiceReject ==
    /\ gen.pc = "service"
    /\ GenFail

\* ------------------------------------------------------ resize ("fit")
\* handleResize: the window's resize event re-arms the 200 ms timer.  The
\* effect installs the listener once pdfDoc is set.  `limit` bounds the
\* resize events of a behaviour.
handleResizeUpTo(limit) ==
    /\ variant = "fit"
    /\ pdfDoc # None
    /\ resizes < limit
    /\ resizeTimer' = TRUE
    /\ resizes' = resizes + 1
    /\ UNCHANGED <<variant, editVars, compVars, ctxVars, toast, proc, nextId, runLog, regionVars,
                   dimUpdates>>
    /\ PagesAfterRender

handleResize == handleResizeUpTo(MaxResizes)

\* The timer fires: updatePdfDimensions(pdfDoc) runs up to its first await,
\* or returns at once while the viewer is not mounted.
updatePdfDimensions ==
    /\ resizeTimer
    /\ resizeTimer' = FALSE
    /\ dimUpdates' =
          IF ~ViewerMounted THEN dimUpdates
          ELSE dimUpdates \cup {[pc |-> "layout", numPages |-> pdfDoc[1].numPages,
                                 newScale |-> 0]}
    /\ UNCHANGED <<variant, editVars, compVars, ctxVars, toast, proc, nextId, runLog, regionVars,
                   resizes>>
    /\ PagesAfterRender

\* newScale = availableWidth / viewport.width, in tenths.
FitScale(availableWidth) == (availableWidth * 10) \div NativeSize.width

\* After setTimeout(0) the container's width is read; getPage(1) is awaited.
UpdateLayout(u, availableWidth) ==
    /\ u \in dimUpdates
    /\ u.pc = "layout"
    /\ dimUpdates' = (dimUpdates \ {u})
                     \cup {[u EXCEPT !.pc = "scale", !.newScale = FitScale(availableWidth)]}
    /\ UNCHANGED <<variant, editVars, compVars, ctxVars, toast, proc, nextId, runLog, regionVars,
                   resizeTimer, resizes>>
    /\ PagesAfterRender

\* getPage(1) resolves: setPdfScale(newScale); the pages are fetched.
UpdateScale(u) ==
    /\ u \in dimUpdates
    /\ u.pc = "scale"
    /\ pdfScale' = u.newScale
    /\ dimUpdates' = (dimUpdates \ {u}) \cup {[u EXCEPT !.pc = "pages"]}
    /\ UNCHANGED <<variant, editVars, file, status, statusMessage, extractedAssets, selectedAssetId,
                   pdfDoc, pageDimensions, ctxVars, toast, proc, nextId, runLog, regionVars,
                   resizeTimer, resizes>>
    /\ PagesAfterRender

\* The last getPage(i) resolves: setPageDimensions(dimensions).
UpdateDimensions(u) ==
    /\ u \in dimUpdates
    /\ u.pc = "pages"
    /\ pageDimensions' = Dimensions(u.numPages, u.newScale)
    /\ dimUpdates' = dimUpdates \ {u}
    /\ UNCHANGED <<variant, editVars, file, status, statusMessage, extractedAssets, selectedAssetId,
                   pdfDoc, pdfScale, ctxVars, toast, proc, nextId, runLog, regionVars,
                   resizeTimer, resizes>>
    /\ PagesAfterRender

\* A getPage of updatePdfDimensions rejects: the call ends, nothing is set.
UpdateReject(u) ==
    /\ u \in dimUpdates
    /\ u.pc \in {"scale", "pages"}
    /\ dimUpdates' = dimUpdates \ {u}
    /\ UNCHANGED <<variant, editVars, compVars, ctxVars, toast, proc, nextId, runLog, regionVars,
                   resizeTimer, resizes>>
    /\ PagesAfterRender

\* ------------------------------------------------ editing the collection
\* The list of assets, with the panel of the selected one, is part of
\* renderResultsArea.
ResultsShown == status = "done"

AssetIds(assets) == {assets[i].id : i \in 1..Len(assets)}

\* What the user types into the textarea and into the "Add..." input.
AltTexts == {<<"edited">>}
NewKeywords == {"", " ", " k2 "}

ToastRegenerating(assetId) ==
    [type |-> "info", message |-> "Regenerating metadata for " \o ToString(assetId) \o "..."]
ToastRegenerated(assetId) ==
    [type |-> "success", message |-> "Metadata for " \o ToString(assetId) \o " regenerated."]
ToastRemoved == [type |-> "info", message |-> "Asset removed."]

EditEvent(op, id) == [op |-> op, id |-> id]

\* The header button of an asset card:
\* setSelectedAssetId(isSelected ? null : asset.id).
SelectAsset(assetId) ==
    /\ ResultsShown
    /\ assetId \in AssetIds(extractedAssets)
    /\ selectedAssetId' = IF selectedAssetId = Some(assetId) THEN None ELSE Some(assetId)
    /\ UNCHANGED <<variant, editVars, file, status, statusMessage, extractedAssets, pdfDoc,
                   pdfScale, pageDimensions, ctxVars, toast, proc, nextId, runLog,
                   regionVars, resizeVars>>
    /\ PagesAfterRender

\* The panel with Regenerate, the textarea, the keywords and Delete Asset is
\* rendered for the selected asset only.
PanelShown(assetId) ==
    /\ ResultsShown
    /\ selectedAssetId = Some(assetId)
    /\ assetId \in AssetIds(extractedAssets)

AssetWithId(assets, assetId) ==
    CHOOSE a \in {assets[i] : i \in 1..Len(assets)} : a.id = assetId

\* An updater that adds the value to the field's list instead of replacing it.
cellUpdateAppending(prev, assetId, field, value) ==
    [i \in 1..Len(prev) |->
        IF prev[i].id = assetId
        THEN [prev[i] EXCEPT ![field] = prev[i][field] \o value]
        ELSE prev[i]]

\* prev => prev.map(asset => asset.id === assetId ? {...asset, [field]: value} : asset)
cellUpdate(prev, assetId, field, value) ==
    [i \in 1..Len(prev) |->
        IF prev[i].id = assetId THEN [prev[i] EXCEPT ![field] = value] ELSE prev[i]]

handleCellUpdate(assetId, field, value) ==
    /\ PanelShown(assetId)
    /\ Len(editLog) < MaxEdits
    /\ extractedAssets' = cellUpdate(extractedAssets, assetId, field, value)
    /\ editLog' = Append(editLog, EditEvent("update", assetId))
    /\ UNCHANGED <<variant, file, status, statusMessage, selectedAssetId, pdfDoc, pdfScale,
                   pageDimensions, ctxVars, toast, proc, nextId, runLog, regionVars,
                   resizeVars, regenTimers>>
    /\ PagesAfterRender

\* keywords.filter((_, i) => i !== index) from position `i` on, with the
\* positions counted from 1.
RECURSIVE FilterIndex(_, _, _)
FilterIndex(keywords, index, i) ==
    IF keywords = <<>> THEN <<>>
    ELSE (IF i # index THEN <<Head(keywords)>> ELSE <<>>)
            \o FilterIndex(Tail(keywords), index, i + 1)

\* asset.keywords.filter((_, i) => i !== index), with index counted from 1.
RemoveAt(keywords, index) == FilterIndex(keywords, index, 1)

\* String.prototype.trim for texts whose only white space is the blank.
RECURSIVE trim(_)
trim(text) ==
    IF Len(text) = 0 THEN text
    ELSE IF SubSeq(text, 1, 1) = " " THEN trim(SubSeq(text, 2, Len(text)))
    ELSE IF SubSeq(text, Len(text), Len(text)) = " "
         THEN trim(SubSeq(text, 1, Len(text) - 1))
    ELSE text

\* An "Add..." input that drops a text that is already a keyword.
addKeywordDeduplicating(keywords, text) ==
    IF trim(text) # "" /\ \A i \in 1..Len(keywords) : keywords[i] # trim(text)
    THEN {Append(keywords, trim(text))}
    ELSE {}

\* onKeyDown of the "Add..." input on Enter: the values it passes to
\* handleCellUpdate, none when the trimmed text is empty.
addKeyword(keywords, text) ==
    IF trim(text) # "" THEN {Append(keywords, trim(text))} ELSE {}

\* Keyword controls that work on the keywords the service had returned, as
\* a panel that is not rendered again after an edit would.
KeywordEditsFromFirstRender(asset) ==
    {RemoveAt(<<"k1">>, index) : index \in 1..1}
       \cup UNION {addKeyword(<<"k1">>, text) : text \in NewKeywords}

\* The values the keyword controls of an asset's panel pass to
\* handleCellUpdate: one keyword removed, or a typed one added.
KeywordEdits(asset) ==
    {RemoveAt(asset.keywords, index) : index \in 1..Len(asset.keywords)}
       \cup UNION {addKeyword(asset.keywords, text) : text \in NewKeywords}

\* An updater that drops the addressed asset and the one following it.
deleteAssetAndNext(prev, assetId) ==
    LET keep == {i \in 1..Len(prev) :
                    /\ prev[i].id # assetId
                    /\ (i > 1 => prev[i - 1].id # assetId)}
        F[i \in 0..Len(prev)] ==
            IF i = 0 THEN <<>>
            ELSE IF i \in keep THEN Append(F[i - 1], prev[i]) ELSE F[i - 1]
    IN F[Len(prev)]

\* An updater that removes by position: prev.splice(prev.findIndex(...), 1),
\* where findIndex answers -1 for an id that is not there and splice(-1, 1)
\* removes the last element.
deleteAssetBySplice(prev, assetId) ==
    IF \E i \in 1..Len(prev) : prev[i].id = assetId
    THEN SelectSeq(prev, LAMBDA asset : asset.id # assetId)
    ELSE SubSeq(prev, 1, Len(prev) - 1)

\* prev => prev.filter(asset => asset.id !== assetId)
deleteAsset(prev, assetId) == SelectSeq(prev, LAMBDA asset : asset.id # assetId)

\* if (selectedAssetId === assetId) setSelectedAssetId(null)
selectionAfterDelete(selected, assetId) ==
    IF selected = Some(assetId) THEN None ELSE selected

handleDeleteAsset(assetId) ==
    /\ PanelShown(assetId)
    /\ Len(editLog) < MaxEdits
    /\ extractedAssets' = deleteAsset(extractedAssets, assetId)
    /\ toast' = ToastRemoved
    /\ selectedAssetId' = selectionAfterDelete(selectedAssetId, assetId)
    /\ editLog' = Append(editLog, EditEvent("delete", assetId))
    /\ UNCHANGED <<variant, file, status, statusMessage, pdfDoc, pdfScale, pageDimensions,
                   ctxVars, proc, nextId, runLog, regionVars, resizeVars, regenTimers>>
    /\ PagesAfterRender

\* handleRegenerate: the toast, then setTimeout(..., 2000).  The timer's
\* callback closes over the asset's id and over the render it was made in,
\* whose collection is `seen`.
handleRegenerate(assetId) ==
    /\ PanelShown(assetId)
    /\ Len(editLog) < MaxEdits
    /\ toast' = ToastRegenerating(assetId)
    /\ regenTimers' = Append(regenTimers, [id |-> assetId, seen |-> extractedAssets])
    /\ editLog' = Append(editLog, EditEvent("regenerate", assetId))
    /\ UNCHANGED <<variant, compVars, ctxVars, proc, nextId, runLog, regionVars,
                   resizeVars>>
    /\ PagesAfterRender

RegeneratedSuffix == <<" (regenerated)">>

\* A callback that appends the marker to the altText it saw at the request.
regeneratedOntoRequestText(prev, timer) ==
    [i \in 1..Len(prev) |->
        IF prev[i].id = timer.id
        THEN [prev[i] EXCEPT
                 !.altText = AssetWithId(timer.seen, timer.id).altText \o RegeneratedSuffix]
        ELSE prev[i]]

\* A callback without the comparison of the ids.
regeneratedEvery(prev, timer) ==
    [i \in 1..Len(prev) |-> [prev[i] EXCEPT !.altText = @ \o RegeneratedSuffix]]

\* A callback that maps the collection of the render it was made in.
regeneratedFromSnapshot(prev, timer) ==
    [i \in 1..Len(timer.seen) |->
        IF timer.seen[i].id = timer.id
        THEN [timer.seen[i] EXCEPT !.altText = @ \o RegeneratedSuffix]
        ELSE timer.seen[i]]

\* prev => prev.map(asset => asset.id === assetId
\*            ? {...asset, altText: asset.altText + " (regenerated)"} : asset)
regenerated(prev, timer) ==
    [i \in 1..Len(prev) |->
        IF prev[i].id = timer.id
        THEN [prev[i] EXCEPT !.altText = @ \o RegeneratedSuffix]
        ELSE prev[i]]

\* The timer that was armed first fires.
RegenerateTimeout ==
    /\ regenTimers # <<>>
    /\ extractedAssets' = regenerated(extractedAssets, Head(regenTimers))
    /\ toast' = ToastRegenerated(Head(regenTimers).id)
    /\ regenTimers' = Tail(regenTimers)
    /\ editLog' = Append(editLog, EditEvent("regenerated", Head(regenTimers).id))
    /\ UNCHANGED <<variant, file, status, statusMessage, selectedAssetId, pdfDoc, pdfScale,
                   pageDimensions, ctxVars, proc, nextId, runLog, regionVars, resizeVars>>
    /\ PagesAfterRender

\* ------------------------------------------------- LazyPdfPage, events
LazyScale == IF variant = "fit" THEN pdfScale ELSE API_SCALE

\* The IntersectionObserver reports the container of page p within 500 px
\* of the viewer: setIsIntersecting(true), unobserve, and after the render
\* the render effect.
Intersect(p) ==
    /\ PageMounted(status, pdfDoc, pageDimensions, p)
    /\ ~lazy[p].isIntersecting
    /\ lazy[p].effects < MaxEffects
    /\ lazy' = [lazy EXCEPT ![p] = StartEffect([@ EXCEPT !.isIntersecting = TRUE], LazyScale)]
    /\ UNCHANGED <<variant, compVars, ctxVars, toast, proc, nextId, runLog, regionVars,
                   resizeVars, editVars, rasterStarts>>

\* pdfDoc.getPage(pageNum) of run r resolves:
\* if (isCancelled || !canvasRef.current) return; without a 2d context
\* return; otherwise the canvas is sized and page.render starts.
LazyGetPageResolve(p, r, hasContext) ==
    /\ r \in lazy[p].runs
    /\ r.pc = "getPage"
    /\ IF r.cancelled \/ ~hasContext
       THEN /\ lazy' = [lazy EXCEPT ![p].runs = @ \ {r}]
            /\ UNCHANGED rasterStarts
       ELSE /\ lazy' = [lazy EXCEPT ![p].runs = (@ \ {r}) \cup {[r EXCEPT !.pc = "render"]}]
            /\ rasterStarts' = [rasterStarts EXCEPT ![p] = @ + 1]
    /\ UNCHANGED <<variant, compVars, ctxVars, toast, proc, nextId, runLog, regionVars,
                   resizeVars, editVars>>

\* page.render(...).promise of run r resolves:
\* if (!isCancelled) setIsRendered(true).
LazyRenderResolve(p, r) ==
    /\ r \in lazy[p].runs
    /\ r.pc = "render"
    /\ lazy' = [lazy EXCEPT ![p].runs = @ \ {r},
                            ![p].isRendered = IF r.cancelled THEN @ ELSE TRUE]
    /\ UNCHANGED <<variant, compVars, ctxVars, toast, proc, nextId, runLog, regionVars,
                   resizeVars, editVars, rasterStarts>>

\* getPage or render of run r rejects; the promise has no catch.
LazyReject(p, r) ==
    /\ r \in lazy[p].runs
    /\ lazy' = [lazy EXCEPT ![p].runs = @ \ {r}]
    /\ UNCHANGED <<variant, compVars, ctxVars, toast, proc, nextId, runLog, regionVars,
                   resizeVars, editVars, rasterStarts>>

\* Back (onBack unmounts the component) and Launch Tool (Tools mounts a new
\* one): every useState starts again; the context lives on.
Relaunch ==
    /\ proc.pc = "none"
    /\ gen.pc = "none"
    /\ dimUpdates = {}
    /\ regenTimers = <<>>
    /\ file' = None
    /\ status' = "idle"
    /\ statusMessage' = MsgNone
    /\ extractedAssets' = <<>>
    /\ selectedAssetId' = None
    /\ pdfDoc' = None
    /\ pdfScale' = INITIAL_PDF_SCALE
    /\ pageDimensions' = <<>>
    /\ proc' = ProcIdle
    /\ runLog' = <<>>
    /\ nextId' = 1
    /\ selectionMode' = FALSE
    /\ isSelecting' = FALSE
    /\ isGeneratingSelection' = FALSE
    /\ selectionRect' = None
    /\ selectionStart' = None
    /\ gen' = GenIdle
    /\ gesture' = GestureNone
    /\ manual' = 0
    /\ resizeTimer' = FALSE
    /\ dimUpdates' = {}
    /\ resizes' = 0
    /\ regenTimers' = <<>>
    /\ editLog' = <<>>
    /\ UNCHANGED <<variant, ctxVars, toast>>
    /\ PagesAfterRender

Next ==
    \/ \E size \in FileSizes : onDrop(size)
    \/ handleProcess
    \/ \E n \in 1..MaxPages : LoadResolve(n)
    \/ \E msg \in LoadErrors : LoadReject(msg)
    \/ DimsResolve
    \/ \E msg \in RenderErrors : DimsReject(msg)
    \/ \E c \in BOOLEAN : GetPageResolve(c)
    \/ \E msg \in RenderErrors : GetPageReject(msg)
    \/ RenderResolve
    \/ \E msg \in RenderErrors : RenderReject(msg)
    \/ \E resp \in PageResponses : ServiceResolve(resp)
    \/ ServiceReject
    \/ TryAgain
    \/ ToggleSelectionMode
    \/ \E target \in {None} \cup {Some(i) : i \in RenderedPages}, point \in DownPoints :
          handleMouseDown(target, point)
    \/ \E point \in MovePoints : handleMouseMove(point)
    \/ handleMouseUp
    \/ CancelSelection
    \/ handleGenerateForSelection
    \/ \E c \in BOOLEAN : GenGetPageResolve(c)
    \/ GenGetPageReject
    \/ \E c \in BOOLEAN : GenRenderResolve(c)
    \/ GenRenderReject
    \/ \E newMetadata \in SelectionMetadata : GenServiceResolve(newMetadata)
    \/ GenServiceReject
    \/ handleResize
    \/ updatePdfDimensions
    \/ \E u \in dimUpdates, w \in AvailableWidths : UpdateLayout(u, w)
    \/ \E u \in dimUpdates : UpdateScale(u)
    \/ \E u \in dimUpdates : UpdateDimensions(u)
    \/ \E u \in dimUpdates : UpdateReject(u)
    \/ Relaunch

Spec == Init /\ [][Next]_vars

\* ------------------------------------------- one instance, with editing
\* The mounted component from the launch on, with the edits of the
\* collection; the service answers with at most one boxed asset for a page
\* and the drag goes one way, which leaves the collections and rectangles
\* few enough for the edits to be explored in every order.
EditPageResponses == SeqsUpTo({Descriptor(Some(Box(10, 20, 50, 30)))}, 1)
EditMovePoints == {[fx |-> 11, fy |-> -1]}

InitEdit == Init /\ currentUser.id = 1

NextEdit ==
    \/ \E size \in FileSizes : onDrop(size)
    \/ handleProcess
    \/ \E n \in 1..MaxPages : LoadResolve(n)
    \/ \E msg \in LoadErrors : LoadReject(msg)
    \/ DimsResolve
    \/ \E msg \in RenderErrors : DimsReject(msg)
    \/ \E c \in BOOLEAN : GetPageResolve(c)
    \/ \E msg \in RenderErrors : GetPageReject(msg)
    \/ RenderResolve
    \/ \E msg \in RenderErrors : RenderReject(msg)
    \/ \E resp \in EditPageResponses : ServiceResolve(resp)
    \/ ServiceReject
    \/ TryAgain
    \/ ToggleSelectionMode
    \/ \E target \in {None} \cup {Some(i) : i \in RenderedPages}, point \in DownPoints :
          handleMouseDown(target, point)
    \/ \E point \in EditMovePoints : handleMouseMove(point)
    \/ handleMouseUp
    \/ CancelSelection
    \/ handleGenerateForSelection
    \/ \E c \in BOOLEAN : GenGetPageResolve(c)
    \/ GenGetPageReject
    \/ \E c \in BOOLEAN : GenRenderResolve(c)
    \/ GenRenderReject
    \/ \E newMetadata \in SelectionMetadata : GenServiceResolve(newMetadata)
    \/ GenServiceReject
    \/ handleResize
    \/ updatePdfDimensions
    \/ \E u \in dimUpdates, w \in AvailableWidths : UpdateLayout(u, w)
    \/ \E u \in dimUpdates : UpdateScale(u)
    \/ \E u \in dimUpdates : UpdateDimensions(u)
    \/ \E u \in dimUpdates : UpdateReject(u)
    \/ \E assetId \in AssetIds(extractedAssets) : SelectAsset(assetId)
    \/ \E assetId \in AssetIds(extractedAssets), value \in AltTexts :
          handleCellUpdate(assetId, "altText", value)
    \/ \E assetId \in AssetIds(extractedAssets) :
          \E value \in KeywordEdits(AssetWithId(extractedAssets, assetId)) :
             handleCellUpdate(assetId, "keywords", value)
    \/ \E assetId \in AssetIds(extractedAssets) : handleDeleteAsset(assetId)
    \/ \E assetId \in AssetIds(extractedAssets) : handleRegenerate(assetId)
    \/ RegenerateTimeout

SpecEdit == InitEdit /\ [][NextEdit]_vars

\* --------------------------------------------- one instance, page by page
\* The mounted component with the events of its LazyPdfPage components: the
\* observer's reports and the promises of the render effect, next to the
\* steps of the parent that render it again (the Select toggle, a drag, the
\* resize in "fit") or take the viewer away (the generation for a selection
\* in "fixed").  The service finds no asset on a page, the drag goes one
\* way and the viewer is resized to one of two widths.
LazyPageResponses == {<<>>}
LazyWidths == {200, 300}

InitLazy == Init /\ currentUser.id = 1

NextLazy ==
    \/ \E size \in FileSizes : onDrop(size)
    \/ handleProcess
    \/ \E n \in 1..MaxPages : LoadResolve(n)
    \/ \E msg \in LoadErrors : LoadReject(msg)
    \/ DimsResolve
    \/ \E msg \in RenderErrors : DimsReject(msg)
    \/ \E c \in BOOLEAN : GetPageResolve(c)
    \/ \E msg \in RenderErrors : GetPageReject(msg)
    \/ RenderResolve
    \/ \E msg \in RenderErrors : RenderReject(msg)
    \/ \E resp \in LazyPageResponses : ServiceResolve(resp)
    \/ ServiceReject
    \/ TryAgain
    \/ ToggleSelectionMode
    \/ \E target \in {None} \cup {Some(i) : i \in RenderedPages}, point \in DownPoints :
          handleMouseDown(target, point)
    \/ \E point \in EditMovePoints : handleMouseMove(point)
    \/ handleMouseUp
    \/ CancelSelection
    \/ handleGenerateForSelection
    \/ \E c \in BOOLEAN : GenGetPageResolve(c)
    \/ GenGetPageReject
    \/ \E c \in BOOLEAN : GenRenderResolve(c)
    \/ GenRenderReject
    \/ \E newMetadata \in SelectionMetadata : GenServiceResolve(newMetadata)
    \/ GenServiceReject
    \/ handleResize
    \/ updatePdfDimensions
    \/ \E u \in dimUpdates, w \in LazyWidths : UpdateLayout(u, w)
    \/ \E u \in dimUpdates : UpdateScale(u)
    \/ \E u \in dimUpdates : UpdateDimensions(u)
    \/ \E u \in dimUpdates : UpdateReject(u)
    \/ \E p \in LazyPages : Intersect(p)
    \/ \E p \in LazyPages : \E r \in lazy[p].runs, c \in BOOLEAN : LazyGetPageResolve(p, r, c)
    \/ \E p \in LazyPages : \E r \in lazy[p].runs : LazyRenderResolve(p, r)
    \/ \E p \in LazyPages : \E r \in lazy[p].runs : LazyReject(p, r)

SpecLazy == InitLazy /\ [][NextLazy]_vars

\* The lazily rendered pages under a changing scale: a document is processed
\* and the window is resized once more than in the other specifications, so
\* that the fitted scale changes under pages that are already mounted.
NextRescale ==
    \/ \E size \in FileSizes : onDrop(size)
    \/ handleProcess
    \/ \E n \in 1..MaxPages : LoadResolve(n)
    \/ \E msg \in LoadErrors : LoadReject(msg)
    \/ DimsResolve
    \/ \E msg \in RenderErrors : DimsReject(msg)
    \/ \E c \in BOOLEAN : GetPageResolve(c)
    \/ \E msg \in RenderErrors : GetPageReject(msg)
    \/ RenderResolve
    \/ \E msg \in RenderErrors : RenderReject(msg)
    \/ \E resp \in LazyPageResponses : ServiceResolve(resp)
    \/ ServiceReject
    \/ TryAgain
    \/ handleResizeUpTo(MaxResizes + 1)
    \/ updatePdfDimensions
    \/ \E u \in dimUpdates, w \in LazyWidths : UpdateLayout(u, w)
    \/ \E u \in dimUpdates : UpdateScale(u)
    \/ \E u \in dimUpdates : UpdateDimensions(u)
    \/ \E u \in dimUpdates : UpdateReject(u)
    \/ \E p \in LazyPages : Intersect(p)
    \/ \E p \in LazyPages : \E r \in lazy[p].runs, c \in BOOLEAN : LazyGetPageResolve(p, r, c)
    \/ \E p \in LazyPages : \E r \in lazy[p].runs : LazyRenderResolve(p, r)
    \/ \E p \in LazyPages : \E r \in lazy[p].runs : LazyReject(p, r)

SpecRescale == InitLazy /\ [][NextRescale]_vars

\* A document of three pages whose first page holds no asset, whose second
\* page holds two assets with bounding boxes and whose third page holds one.
ScenarioPages == 3
ScenarioResponses(pageNum) ==
    CASE pageNum = 1 -> {<<>>}
      [] pageNum = 2 -> {<<Descriptor(a), Descriptor(b)>> : a, b \in ServiceBoxes \ {None}}
      [] pageNum = 3 -> {<<Descriptor(c)>> : c \in ServiceBoxes}
      [] OTHER -> {}

InitThreePages == Init /\ currentUser.id = 1

NextThreePages ==
    \/ \E size \in FileSizes : onDrop(size)
    \/ handleProcess
    \/ LoadResolve(ScenarioPages)
    \/ \E msg \in LoadErrors : LoadReject(msg)
    \/ DimsResolve
    \/ \E msg \in RenderErrors : DimsReject(msg)
    \/ GetPageResolve(TRUE)
    \/ \E msg \in RenderErrors : GetPageReject(msg)
    \/ RenderResolve
    \/ \E msg \in RenderErrors : RenderReject(msg)
    \/ \E resp \in ScenarioResponses(proc.pageNum) : ServiceResolve(resp)
    \/ ServiceReject
    \/ TryAgain

SpecThreePages == InitThreePages /\ [][NextThreePages]_vars

\* ------------------------------------- one instance, every await settles
\* The mounted component with its run and its region generation, under the
\* condition that no awaited promise stays pending: the document load, the
\* page lookups, the rasterizations and the calls of the metadata service
\* each resolve or reject.
PipelineSettles ==
    \/ \E n \in 1..MaxPages : LoadResolve(n)
    \/ \E msg \in LoadErrors : LoadReject(msg)
    \/ DimsResolve
    \/ \E msg \in RenderErrors : DimsReject(msg)
    \/ \E c \in BOOLEAN : GetPageResolve(c)
    \/ \E msg \in RenderErrors : GetPageReject(msg)
    \/ RenderResolve
    \/ \E msg \in RenderErrors : RenderReject(msg)
    \/ \E resp \in EditPageResponses : ServiceResolve(resp)
    \/ ServiceReject

GenerationSettles ==
    \/ \E c \in BOOLEAN : GenGetPageResolve(c)
    \/ GenGetPageReject
    \/ \E c \in BOOLEAN : GenRenderResolve(c)
    \/ GenRenderReject
    \/ \E newMetadata \in SelectionMetadata : GenServiceResolve(newMetadata)
    \/ GenServiceReject

InitLive == Init /\ currentUser.id = 1

NextLive ==
    \/ \E size \in FileSizes : onDrop(size)
    \/ handleProcess
    \/ PipelineSettles
    \/ TryAgain
    \/ ToggleSelectionMode
    \/ \E target \in {None} \cup {Some(i) : i \in RenderedPages}, point \in DownPoints :
          handleMouseDown(target, point)
    \/ \E point \in EditMovePoints : handleMouseMove(point)
    \/ handleMouseUp
    \/ CancelSelection
    \/ handleGenerateForSelection
    \/ GenerationSettles

SpecLive ==
    /\ InitLive
    /\ [][NextLive]_vars
    /\ WF_vars(PipelineSettles)
    /\ WF_vars(GenerationSettles)

\* ------------------------------------------------------------------ claims
\* The places of the events `ev` in the log of the current run.
LogIndices(ev) == {i \in 1..Len(runLog) : runLog[i].ev = ev}
Range(s) == {s[i] : i \in 1..Len(s)}

\* C1: the pipeline works on one page at a time, in the order 1, 2, ...: at
\* most one service call is outstanding, and it is the call for the current
\* page; the call for a later page is issued only after the call for every
\* earlier page has returned and its assets have been appended.
C1_OnePageAtATime ==
    /\ Cardinality(proc.pending) <= 1
    /\ proc.pending \subseteq {proc.pageNum}
    /\ proc.pending # {} => proc.pc = "service"
    /\ \A i \in LogIndices("progress") :
          runLog[i].page = Cardinality({j \in LogIndices("progress") : j <= i})
    /\ \A i, j \in LogIndices("call") :
          i < j => /\ runLog[i].page < runLog[j].page
                   /\ \E m \in (i + 1)..(j - 1) : runLog[m] = Event("return", runLog[i].page)
    /\ \A a \in LogIndices("append"), j \in LogIndices("call") :
          runLog[a].page < runLog[j].page => a < j

\* A run has called the service for page 1 and then for page 2.
C1_Witness ==
    /\ status = "done"
    /\ \E i, j \in LogIndices("call") : runLog[i].page = 1 /\ runLog[j].page = 2

\* C2: during a run the appends come in increasing page order, page k's only
\* after every earlier page was appended, found empty or skipped, and the
\* step that appends while page k is processed adds assets of pageNumber k
\* only and keeps the assets that were there.
C2_AppendOrder ==
    /\ [](/\ \A i, j \in LogIndices("append") : i < j => runLog[i].page < runLog[j].page
          /\ \A i \in LogIndices("append") : \A p \in 1..(runLog[i].page - 1) :
                \E m \in 1..(i - 1) :
                   runLog[m].page = p /\ runLog[m].ev \in {"append", "return", "skip"})
    /\ [][(proc.pc = "service" /\ extractedAssets' # extractedAssets) =>
             LET added == {a \in Range(extractedAssets') : a.id >= nextId}
             IN /\ added # {}
                /\ \A a \in added : a.pageNumber = proc.pageNum
                /\ Range(extractedAssets') \ added = Range(extractedAssets)]_vars

\* A finished run that appended for page 1 and for page 2.
C2_Witness ==
    /\ status = "done"
    /\ \E i, j \in LogIndices("append") : runLog[i].page = 1 /\ runLog[j].page = 2

\* The messages a failed run can carry.
FailureMessages == LoadErrors \cup RenderErrors \cup {ServiceError}

\* C5: a failure at page k ends the run: the abort is the last thing the
\* run does, nothing of the run concerns a page beyond k, the status is
\* 'error' (until "Try Again") with the failure's message, the service's own
\* when the service failed, and never 'done'.
C5_FailureAborts ==
    /\ \A i \in LogIndices("abort") :
          /\ i = Len(runLog)
          /\ \A j \in 1..i : runLog[j].page <= runLog[i].page
          /\ proc.pc = "none"
          /\ status \in {"error", "idle"}
    /\ status = "error" =>
          /\ LogIndices("abort") # {}
          /\ statusMessage.kind \in FailureMessages
          /\ toast = ToastError(statusMessage.kind)
          /\ (Len(runLog) > 1 /\ runLog[Len(runLog) - 1].ev = "call")
                => statusMessage.kind = ServiceError

\* The service failed at page 1 of a two-page document.
C5_Witness ==
    /\ status = "error"
    /\ statusMessage.kind = ServiceError
    /\ proc.numPages = 2
    /\ runLog[Len(runLog)] = Event("abort", 1)

\* C6: after an abort the collection is what the run had appended up to the
\* failure: every page that was appended still has its assets.
C6_PartialResultsKept ==
    LogIndices("abort") # {} =>
       /\ extractedAssets = proc.allAssets
       /\ \A i \in LogIndices("append") :
             \E a \in Range(extractedAssets) : a.pageNumber = runLog[i].page

\* A run that failed at page 2 after appending assets of page 1.
C6_Witness ==
    /\ status = "error"
    /\ runLog[Len(runLog)] = Event("abort", 2)
    /\ \E a \in Range(extractedAssets) : a.pageNumber = 1

\* C7: the usage log grows by one entry, for the run's user, in the step in
\* which a run finishes its last page with status 'done', and in no other
\* step: not at a gate, not at an abort, not between pages.
C7_UsageLoggedOnce ==
    [][/\ usageLogs' # usageLogs =>
             /\ proc.pc \in {"getPage", "service"}
             /\ proc.pageNum = proc.numPages
             /\ proc'.pc = "none"
             /\ status' = "done"
             /\ Len(usageLogs') = Len(usageLogs) + 1
             /\ SubSeq(usageLogs', 2, Len(usageLogs')) = usageLogs
             /\ usageLogs'[1].userId = proc.userId
       /\ (proc.pc # "none" /\ proc'.pc = "none" /\ status' = "done") =>
             Len(usageLogs') = Len(usageLogs) + 1]_vars

\* A two-page run has finished and is in the usage log.
C7_Witness ==
    /\ status = "done"
    /\ proc.numPages = 2
    /\ Len(usageLogs) = Len(USAGE_LOGS) + 1
    /\ runLog[Len(runLog)] = Event("usage", 2)

\* C8: while the current user's tokensUsed is at or above tokenCap no step
\* from the idle component starts a run: status, collection, document handle
\* and usage log stay as they are and nothing is rasterized or sent.
C8_BudgetGate ==
    [][(currentUser.tokensUsed >= currentUser.tokenCap /\ status = "idle"
        /\ proc.pc = "none") =>
          /\ status' = "idle"
          /\ proc' = proc
          /\ extractedAssets' = extractedAssets
          /\ pdfDoc' = pdfDoc
          /\ runLog' = runLog
          /\ usageLogs' = usageLogs]_vars

\* Extraction was invoked with a file by a user exactly at the cap, and
\* rejected.
C8_Witness ==
    /\ toast = ToastTokenCap
    /\ status = "idle"
    /\ file # None
    /\ currentUser.tokensUsed = currentUser.tokenCap

\* C9: the selected file is never larger than 100 * 1024 * 1024 bytes, and
\* the step that raises the size error leaves the selected file as it was
\* and starts nothing.
C9_SizeGate ==
    /\ [](file # None => file[1].size <= MaxFileBytes)
    /\ [][(toast' = ToastFileSize /\ toast # ToastFileSize) =>
             /\ file' = file
             /\ status' = status
             /\ proc' = proc
             /\ pdfDoc' = pdfDoc
             /\ extractedAssets' = extractedAssets
             /\ runLog' = runLog]_vars

\* A file of exactly the limit was accepted, and a larger one dropped after
\* it was rejected.
C9_Witness ==
    /\ file = Some([size |-> MaxFileBytes])
    /\ toast = ToastFileSize

\* Every asset of an earlier page stands before every asset of a later page.
PageOrdered(s) ==
    \A i, j \in 1..Len(s) : s[i].pageNumber < s[j].pageNumber => i < j

\* The assets are in the order of their insertion: ids are handed out in it.
InsertionOrdered(s) ==
    \A i, j \in 1..Len(s) : i < j => s[i].id < s[j].id

\* The assets the pipeline appended: the run handed out the ids 1..n to them.
PipelineAssets(s) == SelectSeq(s, LAMBDA a : a.id <= Len(proc.allAssets))

\* C3 as stated: in every reachable state the collection is in page order.
C3_PageOrderAlways == PageOrdered(extractedAssets)

\* C3, amended: the re-sorting version keeps the collection in page order in
\* every reachable state; the append-only version keeps it in insertion
\* order, with the pipeline's assets in page order among themselves and a
\* selected region's asset after everything present at its insertion.
C3_PageOrder ==
    /\ variant = "fit" => PageOrdered(extractedAssets)
    /\ variant = "fixed" =>
          /\ InsertionOrdered(extractedAssets)
          /\ PageOrdered(PipelineAssets(extractedAssets))

\* The re-sorting version has put a selected region's asset before an asset
\* of a later page that was in the collection first.
C3_Witness ==
    /\ variant = "fit"
    /\ \E i, j \in 1..Len(extractedAssets) :
          /\ i < j
          /\ extractedAssets[i].id > extractedAssets[j].id
          /\ extractedAssets[i].pageNumber < extractedAssets[j].pageNumber

\* The two rules of the order within a page, for the pair at i before j.
PairOrdered(s, i, j) ==
    IF s[i].boundingBox # None /\ s[j].boundingBox # None
    THEN s[i].boundingBox[1].y <= s[j].boundingBox[1].y
    ELSE s[i].id < s[j].id

OrderedWithinPages(s) ==
    \A i, j \in 1..Len(s) :
       (i < j /\ s[i].pageNumber = s[j].pageNumber) => PairOrdered(s, i, j)

\* A page holds an asset without a bounding box and two boxed assets of
\* different y: the two rules contradict each other there.
RulesConflict(s) ==
    \E i, j, k \in 1..Len(s) :
       /\ s[i].pageNumber = s[j].pageNumber
       /\ s[i].pageNumber = s[k].pageNumber
       /\ s[i].boundingBox = None
       /\ s[j].boundingBox # None
       /\ s[k].boundingBox # None
       /\ s[j].boundingBox[1].y # s[k].boundingBox[1].y

\* C4 as stated, for the version that sorts: in every reachable state each
\* page is ordered by y where both assets have a box, by insertion otherwise.
C4_WithinPageOrderAlways == variant = "fit" => OrderedWithinPages(extractedAssets)

\* C4, amended: in the re-sorting version an insertion into a collection
\* whose pages are ordered by the two rules leaves them ordered by the two
\* rules, unless it leaves a page with an asset without a bounding box next
\* to two boxed assets of different y.
C4_WithinPageOrder ==
    [][(/\ variant = "fit"
        /\ Len(extractedAssets') > Len(extractedAssets)
        /\ OrderedWithinPages(extractedAssets)
        /\ ~RulesConflict(extractedAssets'))
          => OrderedWithinPages(extractedAssets')]_vars

\* The sort has moved an asset before an asset of its page inserted earlier,
\* on a page that also holds an asset without a bounding box.
C4_Witness ==
    /\ variant = "fit"
    /\ ~RulesConflict(extractedAssets)
    /\ \E i, j, k \in 1..Len(extractedAssets) :
          /\ i < j
          /\ extractedAssets[i].pageNumber = extractedAssets[j].pageNumber
          /\ extractedAssets[i].id > extractedAssets[j].id
          /\ extractedAssets[k].boundingBox = None

\* C10: the step in which a confirmed selection's generation succeeds adds
\* exactly one asset: its boundingBox is the rectangle the selection had at
\* the pointer-up before the confirm, its pageNumber the page index of that
\* drag's pointer-down plus 1, its id new; every asset that was in the
\* collection is still in it, unmodified.
C10_ConfirmAddsOneAsset ==
    [][(gen.pc = "service" /\ gen'.pc = "none" /\ toast' = ToastAdded) =>
          /\ gen.confirmed.upRect # None
          /\ gen.confirmed.downPage # None
          /\ Len(extractedAssets') = Len(extractedAssets) + 1
          /\ \E a \in Range(extractedAssets') :
                /\ a.boundingBox = Some(gen.confirmed.upRect[1].rect)
                /\ a.pageNumber = gen.confirmed.downPage[1] + 1
                /\ \A b \in Range(extractedAssets) : b.id # a.id
                /\ Range(extractedAssets') \ {a} = Range(extractedAssets)]_vars

\* A region dragged on the second page was confirmed and its asset added.
C10_Witness ==
    /\ toast = ToastAdded
    /\ gen.pc = "none"
    /\ \E a \in Range(extractedAssets) :
          /\ a.assetId = "Figure X"
          /\ a.pageNumber = 2
          /\ a.boundingBox[1].width > 0

\* C11: cancelling a proposed selection (a drag that was started and
\* released, then dismissed with the X of the affordance) leaves the
\* controller Inactive: the rectangle is cleared, selection mode is off and
\* the collection is as it was.
C11_CancelReturnsToInactive ==
    [][(/\ gen.pc = "none" /\ gen'.pc = "none"
        /\ status = "done" /\ status' = "done"
        /\ gesture.upRect # None
        /\ selectionRect # None /\ selectionRect' = None) =>
          /\ ~selectionMode'
          /\ extractedAssets' = extractedAssets]_vars

\* C12: the step that ends a generation for a selection, with or without
\* an asset, clears the rectangle and turns selection mode off, so that the
\* confirm/cancel affordance is gone; when it ends in failure the
\* collection is as it was.
C12_FinishClearsSelection ==
    [][(gen.pc # "none" /\ gen'.pc = "none") =>
          /\ selectionRect' = None
          /\ ~selectionMode'
          /\ ~AffordanceShown'
          /\ toast' = ToastNotGenerated => extractedAssets' = extractedAssets]_vars

\* A generation has failed: nothing was added and nothing is left to confirm.
C12_Witness ==
    /\ toast = ToastNotGenerated
    /\ manual > 0
    /\ gen.pc = "none"
    /\ selectionRect = None
    /\ ~selectionMode

\* C13: a generation for a selection starts only while none is outstanding,
\* also when a further rectangle was drawn in the meantime.
C13_OneGenerationInFlight ==
    [][(gen' # gen /\ gen'.pc = "getPage") => gen.pc = "none"]_vars

\* While a generation waits for the service, another rectangle than the
\* confirmed one has been drawn and released.
C13_Witness ==
    /\ gen.pc = "service"
    /\ selectionRect # None
    /\ ~isSelecting
    /\ gesture.upRect # None
    /\ gesture # gen.confirmed

\* C14: with selection mode off and no generation outstanding there is no
\* selection rectangle and no drag in progress.
C14_ClearedWhenModeOff ==
    (~selectionMode /\ gen.pc = "none") => (selectionRect = None /\ ~isSelecting)

\* ------------------------------------------------- claims about the edits
Last(s) == s[Len(s)]
DeletedIds == {editLog[i].id : i \in {j \in 1..Len(editLog) : editLog[j].op = "delete"}}
EditLogged(op) == editLog' # editLog /\ Last(editLog').op = op
EditFields == {"altText", "keywords", "taxonomy"}
EditValues(asset, field) ==
    CASE field = "altText" -> AltTexts
      [] field = "keywords" -> KeywordEdits(asset)
      [] OTHER -> {"Table -> Data"}

\* C15: an asset that was deleted is never in the collection again,
\* whatever is published, edited, regenerated or inserted afterwards.
C15_DeletedStaysDeleted == AssetIds(extractedAssets) \cap DeletedIds = {}

\* The timer of a regenerate request fired after its asset had been deleted.
C15_Witness ==
    \E i, j \in 1..Len(editLog) :
       /\ i < j
       /\ editLog[i].op = "delete"
       /\ editLog[j].op = "regenerated"
       /\ editLog[j].id = editLog[i].id

\* C16: a delete removes the asset with the id and no other: the assets
\* before it keep their places, those after it move up by one; the
\* selection becomes empty if it was the deleted asset and stays otherwise.
C16_DeleteRemovesExactlyOne ==
    [][EditLogged("delete") =>
          LET id == Last(editLog').id
          IN /\ Len(extractedAssets') = Len(extractedAssets) - 1
             /\ \E k \in 1..Len(extractedAssets) :
                   /\ extractedAssets[k].id = id
                   /\ \A i \in 1..(k - 1) : extractedAssets'[i] = extractedAssets[i]
                   /\ \A i \in k..Len(extractedAssets') :
                         extractedAssets'[i] = extractedAssets[i + 1]
             /\ selectedAssetId' = IF selectedAssetId = Some(id) THEN None
                                   ELSE selectedAssetId]_vars

\* The selected asset was deleted from between two others.
C16_Witness ==
    /\ editLog # <<>>
    /\ Last(editLog).op = "delete"
    /\ selectedAssetId = None
    /\ \E i \in 1..(Len(extractedAssets) - 1) :
          /\ extractedAssets[i].id < Last(editLog).id
          /\ extractedAssets[i + 1].id > Last(editLog).id

\* C17: on every collection the component reaches, for every id in it,
\* field and value, a second updateField with the same arguments changes
\* nothing, and the first one replaces the named field of the addressed
\* asset and nothing else: same length, same order, other assets and other
\* fields as they were.
C17_UpdateIdempotent ==
    \A i \in 1..Len(extractedAssets), field \in EditFields :
       \A value \in EditValues(extractedAssets[i], field) :
          LET id == extractedAssets[i].id
              once == cellUpdate(extractedAssets, id, field, value)
          IN /\ cellUpdate(once, id, field, value) = once
             /\ Len(once) = Len(extractedAssets)
             /\ once[i][field] = value
             /\ \A g \in (DOMAIN extractedAssets[i]) \ {field} :
                   once[i][g] = extractedAssets[i][g]
             /\ \A k \in (1..Len(extractedAssets)) \ {i} : once[k] = extractedAssets[k]

\* The alt text of an asset was typed twice with the same value.
C17_Witness ==
    /\ Len(editLog) = 2
    /\ editLog[1] = editLog[2]
    /\ editLog[1].op = "update"
    /\ \E a \in Range(extractedAssets) :
          a.id = editLog[1].id /\ a.altText \in AltTexts

C18_UnknownIdState ==
    \A id \in (1..nextId) \ AssetIds(extractedAssets) :
       /\ deleteAsset(extractedAssets, id) = extractedAssets
       /\ regenerated(extractedAssets, [id |-> id, seen |-> extractedAssets])
             = extractedAssets
       /\ \A field \in EditFields, value \in AltTexts :
             cellUpdate(extractedAssets, id, field, value) = extractedAssets
C18_UnknownIdStep ==
    (EditLogged("regenerated") /\ Last(editLog').id \notin AssetIds(extractedAssets)) =>
       /\ extractedAssets' = extractedAssets
       /\ status' = status
       /\ toast'.type # "error"

\* C18: a mutation that addresses an id the collection does not hold
\* leaves the collection as it is: the updaters of handleCellUpdate,
\* handleDeleteAsset and the regenerate timer are the identity for such an
\* id, and the timer that fires for a deleted asset changes neither the
\* collection nor the status and raises no error.
C18_UnknownIdNoOp == []C18_UnknownIdState /\ [][C18_UnknownIdStep]_vars

\* The timer of a deleted asset has fired while another asset is left.
C18_Witness ==
    /\ editLog # <<>>
    /\ Last(editLog).op = "regenerated"
    /\ Last(editLog).id \in DeletedIds
    /\ extractedAssets # <<>>

\* C19: the step in which a regenerate timer fires appends the marker to
\* the altText of the asset with the timer's id and changes nothing else of
\* the collection as it is at that moment, with every edit, delete and
\* insertion made since the request in it; the selection and the status
\* stay.
C19_RegenerateOnlyAltText ==
    [][EditLogged("regenerated") =>
          LET id == Last(editLog').id
          IN /\ Len(extractedAssets') = Len(extractedAssets)
             /\ \A i \in 1..Len(extractedAssets) :
                   extractedAssets'[i] =
                      IF extractedAssets[i].id = id
                      THEN [extractedAssets[i] EXCEPT !.altText = @ \o RegeneratedSuffix]
                      ELSE extractedAssets[i]
             /\ selectedAssetId' = selectedAssetId
             /\ status' = status]_vars

\* Between the request and the timer the asset's keywords were edited; the
\* edit and the marker are both in the collection, next to another asset.
C19_Witness ==
    /\ Len(editLog) = 3
    /\ editLog[1].op = "regenerate"
    /\ editLog[2].op = "update"
    /\ editLog[3].op = "regenerated"
    /\ editLog[2].id = editLog[1].id
    /\ Len(extractedAssets) >= 2
    /\ \E a \in Range(extractedAssets) :
          /\ a.id = editLog[1].id
          /\ a.keywords = <<"k1", "k2">>
          /\ a.altText = <<"alt">> \o RegeneratedSuffix

\* -------------------------------------------- claims about LazyPdfPage
\* C20: for each page at most one rasterization is started per document
\* load, whatever the observer reports and however often the viewer is
\* resized or the parent rendered again.
C20_OneRasterizationPerPage == \A p \in LazyPages : rasterStarts[p] <= 1
\* C21: a render whose effect was cleaned up while it was in flight is
\* discarded: a page becomes rendered only through a render that was not
\* cancelled, and a cancelled render that is still rasterizing draws on a
\* canvas that has left the document, never on the one on display.
C21_RenderedByLiveRun ==
    \A p \in LazyPages :
        (lazy'[p].isRendered /\ ~lazy[p].isRendered) =>
            \E r \in lazy[p].runs :
                r.pc = "render" /\ ~r.cancelled /\ r \notin lazy'[p].runs

C21_NoStalePaint ==
    \A p \in LazyPages : \A r \in lazy[p].runs :
        (r.pc = "render" /\ r.cancelled) => r.detached

\* C21: both halves of the cancellation claim, as one temporal formula.
C21_CancelledRenderDiscarded ==
    [][C21_RenderedByLiveRun]_vars /\ []C21_NoStalePaint

\* C22: the page geometry has one entry per page of the document: it is
\* published before the run appends its first asset, and it is complete in
\* every state in which the results are shown.
C22_GeometryMatchesPageCount ==
    /\ (proc.pc # "none" /\ extractedAssets # <<>>) =>
           Len(pageDimensions) = proc.numPages
    /\ status = "done" =>
           (pdfDoc # None /\ Len(pageDimensions) = pdfDoc[1].numPages)

\* C23: while a run of the pipeline is in progress the collection only
\* grows: from one state of the run to the next its length does not decrease
\* and every asset that was in it is still in it.  (No delete can fall into
\* a run: the panel with the delete button is shown in 'done' only.)
C23_GrowsDuringRun ==
    [][proc.pc # "none" =>
          /\ Len(extractedAssets') >= Len(extractedAssets)
          /\ Range(extractedAssets) \subseteq Range(extractedAssets')]_vars

\* A run has appended an asset of page 1 and then an asset of page 2.
C23_Witness ==
    /\ status = "done"
    /\ Cardinality(LogIndices("append")) = 2
    /\ \E a, b \in Range(extractedAssets) : a.pageNumber = 1 /\ b.pageNumber = 2

\* The pages the run reported progress for, in the order of the reports.
ProgressPages ==
    LET reports == SelectSeq(runLog, LAMBDA e : e.ev = "progress")
    IN [i \in 1..Len(reports) |-> reports[i].page]

PageNumbers(s) == [i \in 1..Len(s) |-> s[i].pageNumber]

\* C24 as stated: the run over the three-page document ends with three
\* assets, the two of page 2 in the order of their boundingBox.y and then
\* the one of page 3, and with one progress report per page: 1, 2, 3.
C24_ThreePagesSortedByY ==
    status = "done" =>
       /\ PageNumbers(extractedAssets) = <<2, 2, 3>>
       /\ extractedAssets[1].boundingBox[1].y <= extractedAssets[2].boundingBox[1].y
       /\ ProgressPages = <<1, 2, 3>>

\* C24, amended: a run over the three-page document that did not fail ends
\* with status 'done', three assets (two of page 2, then one of page 3) and
\* one progress report per page, 1, 2, 3; the two assets of page 2 are in
\* the order of their boundingBox.y (in the order of the answer when the y
\* are equal) in the re-sorting version, and in the order of the service's
\* answer in the append-only version.
C24_ThreePages ==
    /\ (proc.pc = "none" /\ runLog # <<>> /\ LogIndices("abort") = {}) => status = "done"
    /\ status = "done" =>
          /\ PageNumbers(extractedAssets) = <<2, 2, 3>>
          /\ ProgressPages = <<1, 2, 3>>
          /\ variant = "fit" =>
                /\ extractedAssets[1].boundingBox[1].y <= extractedAssets[2].boundingBox[1].y
                /\ extractedAssets[1].boundingBox[1].y = extractedAssets[2].boundingBox[1].y
                      => extractedAssets[1].id < extractedAssets[2].id
          /\ variant = "fixed" => InsertionOrdered(extractedAssets)

\* The re-sorting version has finished the three-page run with the second
\* asset of the answer for page 2 in front of the first.
C24_Witness ==
    /\ status = "done"
    /\ variant = "fit"
    /\ Len(extractedAssets) = 3
    /\ extractedAssets[1].id > extractedAssets[2].id
    /\ ProgressPages = <<1, 2, 3>>

\* The pointer positions of the model, as offsets into a page of size `rect`.
DragPoints(rect) ==
    {[x |-> Offset(rect.width, pt.fx), y |-> Offset(rect.height, pt.fy)] :
        pt \in DownPoints \cup MovePoints}

\* C25: the box of a drag from start to current has width >= 0 and
\* height >= 0, its x and y are the smaller of the two points' coordinates
\* (in percent of the page), and the drag from current back to start gives
\* the same box; every box the viewer holds has width >= 0 and height >= 0.
C25_NormalizeRect ==
    /\ \A i \in RenderedPages :
          LET rect == PageRect(i)
          IN \A start, current \in DragPoints(rect) :
                LET box == normalizeRect(start, current.x, current.y, rect)
                IN /\ box.width >= 0
                   /\ box.height >= 0
                   /\ box.x = Min(Percent(start.x, rect.width), Percent(current.x, rect.width))
                   /\ box.y = Min(Percent(start.y, rect.height), Percent(current.y, rect.height))
                   /\ box = normalizeRect(current, start.x, start.y, rect)
    /\ selectionRect # None =>
          (selectionRect[1].rect.width >= 0 /\ selectionRect[1].rect.height >= 0)

\* A drag has gone to the left and upwards: the box starts at the pointer
\* and ends at the point the drag started at.
C25_Witness ==
    /\ isSelecting
    /\ selectionStart # None
    /\ selectionRect # None
    /\ selectionRect[1].pageIndex \in RenderedPages
    /\ LET rect == PageRect(selectionRect[1].pageIndex)
           box == selectionRect[1].rect
       IN /\ box.x < Percent(selectionStart[1].x, rect.width)
          /\ box.y < Percent(selectionStart[1].y, rect.height)
          /\ box.x + box.width = Percent(selectionStart[1].x, rect.width)

\* C26: the step in which handleProcess passes its gates and a new load
\* starts leaves the collection empty and the selection state clear (no
\* rectangle, no drag, selection mode off), and once the new document is
\* processed or shown the page geometry, if any, is the new document's.
C26_LoadStarts ==
    (status = "idle" /\ status' = "loading") =>
       /\ extractedAssets' = <<>>
       /\ selectionRect' = None
       /\ selectionStart' = None
       /\ ~isSelecting'
       /\ ~selectionMode'

C26_GeometryOfCurrentDocument ==
    (status \in {"extracting", "done"} /\ pageDimensions # <<>>) =>
       (pdfDoc # None /\ Len(pageDimensions) = pdfDoc[1].numPages)

\* C26: the reset at the start of a load and the geometry after it, as one
\* temporal formula.
C26_LoadResetsDerivedState ==
    [][C26_LoadStarts]_vars /\ []C26_GeometryOfCurrentDocument

\* A second load has started in a component whose run before failed after
\* it had published its page geometry; the collection is empty.
C26_Witness ==
    /\ status = "loading"
    /\ proc.pc = "load"
    /\ pageDimensions # <<>>
    /\ pdfDoc # None
    /\ extractedAssets = <<>>

\* C27: the session can always go on.  In 'error' the retry is offered, it
\* leads to 'idle' with the file and the budget as they were, and from there
\* handleProcess starts a new run; after a region generation has failed the
\* results are shown again and nothing is in flight, so that an asset can be
\* selected (and then edited, regenerated or deleted) and the selection mode
\* can be switched on again.
C27_RetryOffered ==
    status = "error" =>
       /\ ENABLED TryAgain
       /\ proc.pc = "none"
       /\ file # None
       /\ ~BudgetExhausted(currentUser)

C27_RetryStep ==
    (status = "error" /\ status' # "error") =>
       /\ status' = "idle"
       /\ UNCHANGED <<file, currentUser, proc, runLog>>

C27_StartAfterRetry ==
    (status = "idle" /\ LogIndices("abort") # {}) =>
       ENABLED (handleProcess /\ status' = "loading")

C27_AfterFailedGeneration ==
    (toast = ToastNotGenerated /\ gen.pc = "none") =>
       /\ ResultsShown
       /\ ~isGeneratingSelection
       /\ ENABLED ToggleSelectionMode
       /\ \A id \in AssetIds(extractedAssets) : ENABLED SelectAsset(id)
       /\ \A id \in AssetIds(extractedAssets) :
             selectedAssetId = Some(id) => PanelShown(id)

\* C27: the three parts as one temporal formula.
C27_NeverStuck ==
    /\ []C27_RetryOffered
    /\ [][C27_RetryStep]_vars
    /\ []C27_StartAfterRetry
    /\ []C27_AfterFailedGeneration

\* The append-only version, which hides the results while a generation
\* runs, shows them again, with an asset in them, after one has failed.
C27_Witness ==
    /\ variant = "fixed"
    /\ toast = ToastNotGenerated
    /\ gen.pc = "none"
    /\ status = "done"
    /\ extractedAssets # <<>>

\* C28: every asset of the collection has an id, an assetType and the
\* number of a page of the document, no two assets have the same id, and an
\* asset that stays in the collection keeps its pageNumber under its id,
\* whatever is edited, regenerated, inserted or re-sorted.
C28_AssetsWellFormed ==
    /\ \A a \in Range(extractedAssets) :
          /\ {"id", "assetType", "pageNumber"} \subseteq DOMAIN a
          /\ a.assetType # ""
          /\ pdfDoc # None
          /\ a.pageNumber \in 1..pdfDoc[1].numPages
    /\ \A i, j \in 1..Len(extractedAssets) :
          extractedAssets[i].id = extractedAssets[j].id => i = j

C28_IdentityKept ==
    \A id \in AssetIds(extractedAssets) \cap AssetIds(extractedAssets') :
       AssetWithId(extractedAssets', id).pageNumber
          = AssetWithId(extractedAssets, id).pageNumber

\* C28: the identity of the assets, as one temporal formula.
C28_AssetIdentity == []C28_AssetsWellFormed /\ [][C28_IdentityKept]_vars

\* The re-sorting version holds an edited collection in which the asset of
\* a selected region stands before an asset the pipeline had found earlier.
C28_Witness ==
    /\ variant = "fit"
    /\ editLog # <<>>
    /\ \E i, j \in 1..Len(extractedAssets) :
          i < j /\ extractedAssets[i].id > extractedAssets[j].id

\* C29: the lazy renderer of a page is one-shot: once the page was seen
\* (isIntersecting) it is not unobserved again while the same document is
\* loaded, and a page that is rendered was seen.
C29_StaysObserved ==
    pdfDoc' = pdfDoc =>
       \A p \in LazyPages : lazy[p].isIntersecting => lazy'[p].isIntersecting

C29_RenderedWasSeen ==
    \A p \in LazyPages : lazy[p].isRendered => lazy[p].isIntersecting

\* C29: the two parts as one temporal formula.
C29_OneShotObservation == [][C29_StaysObserved]_vars /\ []C29_RenderedWasSeen


\* C30: a drag starts only in selection mode and only on a rendered page:
\* the step that starts one records the start point and the page and sets
\* a box of size zero at the start point, in percent of that page; a
\* pointer-down that starts no drag changes nothing of the selection state.
C30_DragStartsOnPageInMode ==
    [][((isSelecting' /\ ~isSelecting)
          \/ (selectionStart' # selectionStart /\ selectionStart' # None)) =>
          /\ selectionMode
          /\ selectionMode'
          /\ isSelecting'
          /\ selectionStart' # None
          /\ selectionRect' # None
          /\ selectionRect'[1].pageIndex \in RenderedPages
          /\ gesture'.downPage = Some(selectionRect'[1].pageIndex)
          /\ LET rect == PageRect(selectionRect'[1].pageIndex)
             IN selectionRect'[1].rect =
                   Box(Percent(selectionStart'[1].x, rect.width),
                       Percent(selectionStart'[1].y, rect.height), 0, 0)]_vars

\* A drag has just started on the second page: the box has size zero.
C30_Witness ==
    /\ selectionMode
    /\ isSelecting
    /\ selectionStart # None
    /\ selectionRect # None
    /\ selectionRect[1].pageIndex = 1
    /\ selectionRect[1].rect.width = 0
    /\ selectionRect[1].rect.height = 0
    /\ gesture.downPage = Some(1)


\* The box spans from the start of the drag to the pointer at `pt`, both
\* in percent of the page of size `rect`, whatever the pointer's position.
SpansStartToPointer(box, start, pt, rect) ==
    LET sx == Percent(start.x, rect.width)
        sy == Percent(start.y, rect.height)
        px == Percent(Offset(rect.width, pt.fx), rect.width)
        py == Percent(Offset(rect.height, pt.fy), rect.height)
    IN /\ box.x = Min(sx, px)
       /\ box.y = Min(sy, py)
       /\ box.x + box.width = sx + px - Min(sx, px)
       /\ box.y + box.height = sy + py - Min(sy, py)

\* C31: while a drag goes on, a pointer-move keeps the page index captured
\* at pointer-down, and the new box spans from the drag's start to the
\* pointer measured against that page, without clamping: the pointer may be
\* above the page (y < 0) or beyond its right edge (x + width > 100).
C31_MoveKeepsPage ==
    [][(/\ isSelecting /\ isSelecting'
        /\ selectionStart # None /\ selectionStart' = selectionStart
        /\ selectionRect # None /\ selectionRect' # None
        /\ selectionRect' # selectionRect
        /\ gesture' = gesture) =>
          /\ selectionRect'[1].pageIndex = selectionRect[1].pageIndex
          /\ selectionRect[1].pageIndex \in RenderedPages
          /\ \E pt \in DownPoints \cup MovePoints :
                SpansStartToPointer(selectionRect'[1].rect, selectionStart[1], pt,
                                    PageRect(selectionRect[1].pageIndex))]_vars

\* A drag that started on the second page has the pointer above that page
\* and beyond its right edge: the box is still the second page's.
C31_Witness ==
    /\ isSelecting
    /\ selectionRect # None
    /\ selectionRect[1].pageIndex = 1
    /\ gesture.downPage = Some(1)
    /\ selectionRect[1].rect.y < 0
    /\ selectionRect[1].rect.x + selectionRect[1].rect.width > 100


\* C32: once the pointer was released over the viewer the rectangle is
\* frozen: a step that changes it or its page index is a new pointer-down,
\* the cancel button, or the end of a generation request, never a
\* pointer-move.
C32_FrozenAfterPointerUp ==
    [][(gesture.upRect # None /\ selectionRect' # selectionRect) =>
          \/ /\ isSelecting'
             /\ selectionRect' # None
             /\ selectionRect'[1].rect.width = 0
             /\ selectionRect'[1].rect.height = 0
             /\ gesture'.upRect = None
          \/ /\ AffordanceShown
             /\ selectionRect' = None
             /\ gen' = gen
          \/ /\ gen.pc # "none"
             /\ gen'.pc = "none"
             /\ selectionRect' = None]_vars

\* The pointer was released after a drag that had stretched the rectangle;
\* the rectangle is the one of the release.
C32_Witness ==
    /\ ~isSelecting
    /\ selectionRect # None
    /\ gesture.upRect = selectionRect
    /\ selectionRect[1].rect.width > 0


\* C33: a region generation that fails is scoped to itself.  No step of a
\* request changes the collection except its own successful insertion and
\* the edits of other operations, and the step in which a request fails
\* leaves the collection as it is and the status as it was when the request
\* was made, which is 'done' and not 'error'.
C33_FailedGenerationScoped ==
    [][/\ (gen.pc # "none" /\ extractedAssets' # extractedAssets) =>
             \/ (gen'.pc = "none" /\ toast' = ToastAdded)
             \/ editLog' # editLog
             \/ regenTimers' # regenTimers
       /\ (gen.pc # "none" /\ gen'.pc = "none" /\ toast' = ToastNotGenerated) =>
             /\ extractedAssets' = extractedAssets
             /\ status' = gen.originalStatus
             /\ status' = "done"]_vars

\* A request has failed while the collection held an asset; the results
\* are shown.
C33_Witness ==
    /\ toast = ToastNotGenerated
    /\ gen.pc = "none"
    /\ manual > 0
    /\ extractedAssets # <<>>
    /\ status = "done"


\* The text is made of blanks only.
Blank(text) == \A i \in 1..Len(text) : SubSeq(text, i, i) = " "

\* `inner` is `text` without the blanks at its two ends.
Trimmed(text, inner) ==
    /\ inner # ""
    /\ SubSeq(inner, 1, 1) # " "
    /\ SubSeq(inner, Len(inner), Len(inner)) # " "
    /\ \E a, b \in 0..Len(text) :
          /\ a + Len(inner) + b = Len(text)
          /\ Blank(SubSeq(text, 1, a))
          /\ SubSeq(text, a + 1, a + Len(inner)) = inner
          /\ Blank(SubSeq(text, a + Len(inner) + 1, Len(text)))

\* C34: for every asset of a reachable collection, Enter in the "Add..."
\* input with a text that is not blank passes the keywords with the trimmed
\* text appended as the last one, also when it is a keyword already, and a
\* blank text passes nothing; removing at a position passes the keywords
\* without exactly that one, and a position out of range removes nothing.
C34_KeywordEdits ==
    \A a \in Range(extractedAssets) :
       /\ \A text \in NewKeywords :
             IF Blank(text)
             THEN addKeyword(a.keywords, text) = {}
             ELSE \E value \in addKeyword(a.keywords, text) :
                     /\ addKeyword(a.keywords, text) = {value}
                     /\ Len(value) = Len(a.keywords) + 1
                     /\ SubSeq(value, 1, Len(a.keywords)) = a.keywords
                     /\ Trimmed(text, value[Len(value)])
                     /\ cellUpdate(extractedAssets, a.id, "keywords", value)
                           # extractedAssets
       /\ \A index \in 0..(Len(a.keywords) + 1) :
             LET value == RemoveAt(a.keywords, index)
             IN IF index \in 1..Len(a.keywords)
                THEN /\ Len(value) = Len(a.keywords) - 1
                     /\ \A j \in 1..Len(value) :
                           value[j] = a.keywords[IF j < index THEN j ELSE j + 1]
                ELSE value = a.keywords

\* The same text was added twice to an asset: it is there twice, trimmed.
C34_Witness ==
    \E a \in Range(extractedAssets) : a.keywords = <<"k1", "k2", "k2">>


\* `new` is `cur` with one keyword appended or with one position removed.
OneKeywordEdit(cur, new) ==
    \/ Len(new) = Len(cur) + 1 /\ SubSeq(new, 1, Len(cur)) = cur
    \/ /\ Len(new) = Len(cur) - 1
       /\ \E index \in 1..Len(cur) :
             \A j \in 1..Len(new) : new[j] = cur[IF j < index THEN j ELSE j + 1]

\* The step, which changes the collection, is one whole mutation of the
\* collection as it is: the reset at the start of a run, the publication of
\* a page, the insertion of a selected region's asset, an edit of one field
\* of one asset, a delete, or the completion of a regenerate.
C35_OneMutation ==
    extractedAssets' # extractedAssets =>
       \/ proc.pc = "none" /\ proc'.pc = "load" /\ extractedAssets' = <<>>
       \/ /\ proc.pc = "service"
          /\ proc'.pc # "service"
          /\ editLog' = editLog
          /\ Range(extractedAssets) \subseteq Range(extractedAssets')
          /\ \A a \in Range(extractedAssets') \ Range(extractedAssets) :
                a.pageNumber = proc.pageNum
       \/ /\ gen.pc = "service"
          /\ gen'.pc = "none"
          /\ Len(extractedAssets') = Len(extractedAssets) + 1
          /\ Range(extractedAssets) \subseteq Range(extractedAssets')
       \/ /\ EditLogged("update")
          /\ Len(extractedAssets') = Len(extractedAssets)
          /\ \E i \in 1..Len(extractedAssets), field \in {"altText", "keywords"} :
                /\ extractedAssets[i].id = Last(editLog').id
                /\ \A k \in (1..Len(extractedAssets)) \ {i} :
                      extractedAssets'[k] = extractedAssets[k]
                /\ \A g \in (DOMAIN extractedAssets[i]) \ {field} :
                      extractedAssets'[i][g] = extractedAssets[i][g]
                /\ field = "keywords" =>
                      OneKeywordEdit(extractedAssets[i].keywords,
                                     extractedAssets'[i].keywords)
       \/ /\ EditLogged("delete")
          /\ extractedAssets' =
                SelectSeq(extractedAssets, LAMBDA a : a.id # Last(editLog').id)
       \/ /\ EditLogged("regenerated")
          /\ Len(extractedAssets') = Len(extractedAssets)
          /\ \A k \in 1..Len(extractedAssets) :
                extractedAssets'[k] =
                   IF extractedAssets[k].id = Last(editLog').id
                   THEN [extractedAssets[k] EXCEPT !.altText = @ \o RegeneratedSuffix]
                   ELSE extractedAssets[k]

\* While a run is under way the collection holds what the run has
\* accumulated and nothing else: its next publication discards nothing.
C35_RunOwnsCollection ==
    proc.pc # "none" =>
       /\ Len(extractedAssets) = Len(proc.allAssets)
       /\ Range(extractedAssets) = Range(proc.allAssets)

\* C35: no mutation of the collection is seen half done and none discards
\* another one: every step that changes the collection is one whole
\* mutation of the collection as it is, and the list a run re-publishes is
\* the collection itself.
C35_AtomicMutations == [][C35_OneMutation]_vars /\ []C35_RunOwnsCollection

\* The re-sorting version has inserted the asset of a selected region into
\* a collection that holds an edited asset.
C35_Witness ==
    /\ toast = ToastAdded
    /\ gen.pc = "none"
    /\ Len(extractedAssets) >= 2
    /\ \E a \in Range(extractedAssets) : a.altText = <<"edited">>


\* C36: a region generation and a run of the pipeline never overlap.  While
\* a run is under way no request is in flight and nothing of a selection
\* exists (no mode, no drag, no rectangle); a request starts only while the
\* status is 'done', and the asset of a region is inserted only while no run
\* is under way.
C36_NoRequestDuringRun ==
    proc.pc # "none" =>
       /\ gen.pc = "none"
       /\ ~isGeneratingSelection
       /\ ~selectionMode
       /\ ~isSelecting
       /\ selectionRect = None

C36_RequestStartsInDone ==
    /\ (gen.pc = "none" /\ gen'.pc # "none") => (status = "done" /\ proc.pc = "none")
    /\ (gen.pc # "none" /\ extractedAssets' # extractedAssets /\ toast' = ToastAdded)
          => (proc.pc = "none" /\ proc'.pc = "none")

\* C36: the state part and the step part as one temporal formula.
C36_GenerationOutsideRuns == []C36_NoRequestDuringRun /\ [][C36_RequestStartsInDone]_vars

\* The append-only version shows 'extracting' for a region generation
\* while no run of the pipeline is under way.
C36_Witness ==
    /\ status = "extracting"
    /\ gen.pc = "service"
    /\ proc.pc = "none"


\* C37: in every reachable state a drag in progress implies that the
\* selection mode is on and that there is a selection rectangle.
C37_DragImpliesModeAndRect ==
    isSelecting => (selectionMode /\ selectionRect # None)


C39_CompletionAfterDeleteOrEdit ==
    [][EditLogged("regenerated") =>
          LET id == Last(editLog').id
          IN IF id \notin AssetIds(extractedAssets)
             THEN /\ extractedAssets' = extractedAssets
                  /\ id \notin AssetIds(extractedAssets')
             ELSE AssetWithId(extractedAssets', id).altText
                     = AssetWithId(extractedAssets, id).altText \o RegeneratedSuffix]_vars

\* An asset was deleted between its regenerate request and the timer; the
\* timer has fired and the asset is not in the collection.
C39_Witness ==
    /\ Len(editLog) = 3
    /\ editLog[1].op = "regenerate"
    /\ editLog[2].op = "delete"
    /\ editLog[3].op = "regenerated"
    /\ editLog[2].id = editLog[1].id
    /\ editLog[3].id = editLog[1].id
    /\ editLog[1].id \notin AssetIds(extractedAssets)

\* The Generating state as the user sees it: the flag of "fit", the
\* 'extracting' screen with the generation message of "fixed".
GeneratingShown ==
    \/ isGeneratingSelection
    \/ status = "extracting" /\ statusMessage = MsgGenerating

\* C40: when every await settles, a started run ends with status 'done' or
\* 'error', status 'loading' or 'extracting' never lasts forever, and a
\* region generation in flight ends with its Generating state cleared.
C40_RunsAndGenerationsEnd ==
    /\ (proc.pc # "none") ~> (proc.pc = "none" /\ status \in {"done", "error"})
    /\ (status \in {"loading", "extracting"}) ~> (status \in {"done", "error"})
    /\ (gen.pc # "none") ~> (gen.pc = "none" /\ ~GeneratingShown)
    /\ GeneratingShown ~> ~GeneratingShown

\* A run has ended with 'done' and a region generation after it has ended
\* and cleared its Generating state.
C40_Witness ==
    /\ status = "done"
    /\ proc.pc = "none"
    /\ Len(runLog) > 0
    /\ manual > 0
    /\ gen = GenIdle
    /\ ~GeneratingShown
====
